---- MODULE Spec2Model ----
(***************************************************************************)
(* Model of the photoedit repository: the photo editor (the monolithic     *)
(* PhotoEditor of src/app.js and the modular PhotoEditor of                *)
(* src/unnamed/part_000) and its spectral analyzer (PhotoEditor.fft1D /    *)
(* fft2D / visualizeFFT and FFTAnalyzer.fft1D / fft2D / visualizeFFT).     *)
(*                                                                         *)
(* JavaScript numbers are modelled by exact reals of the form              *)
(* (a + b*sqrt(2)) / 2^e, written <<a, b, e>>, which is closed under the   *)
(* additions, subtractions and multiplications of the butterflies for      *)
(* transform lengths up to 8; Math.cos and Math.sin are modelled by their  *)
(* exact values at multiples of pi/4.  NaN (what arithmetic on an          *)
(* undefined array element gives) is the value <<0, 0, -1>>.               *)
(* Arrays are sequences; the JavaScript index i is the TLA+ index i + 1.   *)
(***************************************************************************)
EXTENDS Integers, Sequences, FiniteSets, TLC

(***************************************************************************)
(* Bounds of the model.                                                    *)
(***************************************************************************)
\* longest sequence handed to fft1D in the function-level specification
MaxN == 7
\* largest number of non-zero entries of such a sequence
MaxNonZero == 2
\* largest width and height of a field handed to fft2D
MaxDim == 4
\* largest width and largest height of the image file the user loads
MaxWidth == 4
MaxHeight == 2
\* largest number of non-zero elements of a field handed to fft2D
MaxFieldNonZero == 1
\* largest number of spectrum windows opened in one session
MaxWindows == 1
\* longest pair of sequences whose transforms are added, and the largest number
\* of non-zero entries of the first sequence of the pair
MaxPairN == 5
MaxPairNonZero == 1
\* the magnitudes handed to the intensity scaling: 0, MagStep, ..., MagSteps * MagStep
MagStep == 333
MagSteps == 12

(***************************************************************************)
(* Numbers.                                                                *)
(***************************************************************************)
RECURSIVE Pow2(_)
Pow2(n) == IF n <= 0 THEN 1 ELSE 2 * Pow2(n - 1)

Max(a, b) == IF a >= b THEN a ELSE b

NaN == <<0, 0, -1>>

IsNaN(x) == x = NaN

Num(n) == <<n, 0, 0>>

RECURSIVE Norm(_)
Norm(x) ==
  IF x[3] > 0 /\ x[1] % 2 = 0 /\ x[2] % 2 = 0
  THEN Norm(<<x[1] \div 2, x[2] \div 2, x[3] - 1>>)
  ELSE x

Add(x, y) ==
  IF IsNaN(x) \/ IsNaN(y) THEN NaN
  ELSE LET e == Max(x[3], y[3])
           p == Pow2(e - x[3])
           q == Pow2(e - y[3])
       IN Norm(<<x[1] * p + y[1] * q, x[2] * p + y[2] * q, e>>)

Neg(x) == IF IsNaN(x) THEN NaN ELSE <<0 - x[1], 0 - x[2], x[3]>>

Sub(x, y) == Add(x, Neg(y))

Mul(x, y) ==
  IF IsNaN(x) \/ IsNaN(y) THEN NaN
  ELSE Norm(<<x[1] * y[1] + 2 * x[2] * y[2], x[1] * y[2] + x[2] * y[1], x[3] + y[3]>>)

\* sqrt(2)/2, the value of cos(pi/4)
HalfSqrt2 == <<0, 1, 1>>

\* Math.cos(-2*pi*j/size) for a size dividing 8
Cos(j, size) ==
  LET t == (j * (8 \div size)) % 8
  IN CASE t = 0 -> Num(1)
       [] t = 1 -> HalfSqrt2
       [] t = 2 -> Num(0)
       [] t = 3 -> Neg(HalfSqrt2)
       [] t = 4 -> Num(0 - 1)
       [] t = 5 -> Neg(HalfSqrt2)
       [] t = 6 -> Num(0)
       [] t = 7 -> HalfSqrt2

\* Math.sin(-2*pi*j/size) for a size dividing 8
Sin(j, size) ==
  LET t == (j * (8 \div size)) % 8
  IN CASE t = 0 -> Num(0)
       [] t = 1 -> Neg(HalfSqrt2)
       [] t = 2 -> Num(0 - 1)
       [] t = 3 -> Neg(HalfSqrt2)
       [] t = 4 -> Num(0)
       [] t = 5 -> HalfSqrt2
       [] t = 6 -> Num(1)
       [] t = 7 -> HalfSqrt2

(***************************************************************************)
(* Bit operations on non-negative integers (j & bit, j ^ bit, bit >> 1).   *)
(***************************************************************************)
RECURSIVE BitAnd(_, _)
BitAnd(a, b) ==
  IF a = 0 \/ b = 0 THEN 0
  ELSE (a % 2) * (b % 2) + 2 * BitAnd(a \div 2, b \div 2)

RECURSIVE BitXor(_, _)
BitXor(a, b) ==
  IF a = 0 THEN b
  ELSE IF b = 0 THEN a
  ELSE ((a + b) % 2) + 2 * BitXor(a \div 2, b \div 2)

ShiftRight1(a) == a \div 2

(***************************************************************************)
(* Typed arrays (Float32Array): a read outside the array gives undefined,  *)
(* which arithmetic turns into NaN; a write outside the array is dropped.  *)
(***************************************************************************)
InRange(arr, i) == i >= 0 /\ i < Len(arr)

Get(arr, i) == IF InRange(arr, i) THEN arr[i + 1] ELSE NaN

Put(arr, i, v) == IF InRange(arr, i) THEN [arr EXCEPT ![i + 1] = v] ELSE arr

Zeros(n) == [k \in 1..n |-> Num(0)]

\* the padding filled with ones instead of zeros
PadTo_Ones(arr, n) == [k \in 1..n |-> IF k <= Len(arr) THEN arr[k] ELSE Num(1)]

\* new Float32Array(paddedN) followed by .set(arr)
PadTo(arr, n) == [k \in 1..n |-> IF k <= Len(arr) THEN arr[k] ELSE Num(0)]

\* arr.slice(0, n)
Slice(arr, n) == [k \in 1..n |-> arr[k]]

\* the working arrays of one fft1D call and the out-of-range indices it touched
Work(real, imag, oob) == [real |-> real, imag |-> imag, oob |-> oob]

Outside(w, idx) == {i \in idx : ~InRange(w.real, i)}

\* Bind(v, F) is F(v), with v computed once before F uses it: the loops below
\* hand each iteration's arrays to the next through it
Bind(v, F(_)) == CHOOSE r \in {F(x) : x \in {v}} : TRUE

(***************************************************************************)
(* fft1D: the bit-reverse permutation shared by both implementations.      *)
(***************************************************************************)
\* for (; j & bit; bit >>= 1) j ^= bit;  j ^= bit;
RECURSIVE BitReverseCarry(_, _)
BitReverseCarry(j, bit) ==
  IF BitAnd(j, bit) # 0
  THEN BitReverseCarry(BitXor(j, bit), ShiftRight1(bit))
  ELSE BitXor(j, bit)

\* the swap applied to the real array only
Swap_RealOnly(w, i, j) ==
  Work(Put(Put(w.real, i, Get(w.real, j)), j, Get(w.real, i)), w.imag,
       w.oob \cup Outside(w, {i, j}))

\* [real[i], real[j]] = [real[j], real[i]];  [imag[i], imag[j]] = [imag[j], imag[i]];
Swap(w, i, j) ==
  Work(Put(Put(w.real, i, Get(w.real, j)), j, Get(w.real, i)),
       Put(Put(w.imag, i, Get(w.imag, j)), j, Get(w.imag, i)),
       w.oob \cup Outside(w, {i, j}))

\* for (let i = 1, j = 0; i < len; i++) { ... if (i < j) swap }
RECURSIVE BitReverseLoop(_, _, _, _)
BitReverseLoop(w, len, i, j) ==
  IF i >= len THEN w
  ELSE Bind(BitReverseCarry(j, ShiftRight1(len)), LAMBDA j2 :
       Bind(IF i < j2 THEN Swap(w, i, j2) ELSE w, LAMBDA w2 :
       BitReverseLoop(w2, len, i + 1, j2)))

\* the permutation left out: the butterflies run on the arrays in input order
BitReversePermutation_Skipped(w, len) == w

BitReversePermutation(w, len) == BitReverseLoop(w, len, 1, 0)

\* what fft1D hands back: the returned arrays, the caller's arrays as the call
\* leaves them, whether the returned arrays are the caller's own objects, the
\* working length of the loops and the out-of-range indices they touched
Returned(real, imag, argReal, argImag, sameObject, len, oob) ==
  [real |-> real, imag |-> imag, argReal |-> argReal, argImag |-> argImag,
   sameObject |-> sameObject, len |-> len, oob |-> oob]

(***************************************************************************)
(* FFTAnalyzer.fft1D                                                       *)
(***************************************************************************)
\* let paddedN = 1; while (paddedN < N) paddedN *= 2;
RECURSIVE FA_GrowPadded(_, _)
FA_GrowPadded(paddedN, N) ==
  IF paddedN < N THEN FA_GrowPadded(paddedN * 2, N) ELSE paddedN

\* the loop written with <=: while (paddedN <= N) paddedN *= 2
FA_PaddedN_Doubled(N) == IF N = FA_GrowPadded(1, N) THEN 2 * N ELSE FA_GrowPadded(1, N)

\* the padding left out: the loops run on the arrays at their own length
FA_PaddedN_Unpadded(N) == N

FA_PaddedN(N) == FA_GrowPadded(1, N)

\* the butterfly with each output halved (a transform scaled by 1/N overall)
FA_Butterfly_Halved(w, size, i, j) ==
  LET halfSize == size \div 2
      k == i + j
      l == k + halfSize
      half == <<1, 0, 1>>
      tReal == Sub(Mul(Get(w.real, l), Cos(j, size)), Mul(Get(w.imag, l), Sin(j, size)))
      tImag == Add(Mul(Get(w.real, l), Sin(j, size)), Mul(Get(w.imag, l), Cos(j, size)))
      real1 == Put(w.real, l, Mul(half, Sub(Get(w.real, k), tReal)))
      imag1 == Put(w.imag, l, Mul(half, Sub(Get(w.imag, k), tImag)))
      real2 == Put(real1, k, Mul(half, Add(Get(w.real, k), tReal)))
      imag2 == Put(imag1, k, Mul(half, Add(Get(w.imag, k), tImag)))
  IN Work(real2, imag2, w.oob \cup Outside(w, {k, l}))

FA_Butterfly(w, size, i, j) ==
  LET halfSize == size \div 2
      k == i + j
      l == k + halfSize
      tReal == Sub(Mul(Get(w.real, l), Cos(j, size)), Mul(Get(w.imag, l), Sin(j, size)))
      tImag == Add(Mul(Get(w.real, l), Sin(j, size)), Mul(Get(w.imag, l), Cos(j, size)))
      real1 == Put(w.real, l, Sub(Get(w.real, k), tReal))
      imag1 == Put(w.imag, l, Sub(Get(w.imag, k), tImag))
      real2 == Put(real1, k, Add(Get(w.real, k), tReal))
      imag2 == Put(imag1, k, Add(Get(w.imag, k), tImag))
  IN Work(real2, imag2, w.oob \cup Outside(w, {k, l}))

RECURSIVE FA_InnerLoop(_, _, _, _)
FA_InnerLoop(w, size, i, j) ==
  IF j >= size \div 2 THEN w
  ELSE Bind(FA_Butterfly(w, size, i, j), LAMBDA w2 : FA_InnerLoop(w2, size, i, j + 1))

RECURSIVE FA_BlockLoop(_, _, _, _)
FA_BlockLoop(w, len, size, i) ==
  IF i >= len THEN w
  ELSE Bind(FA_InnerLoop(w, size, i, 0), LAMBDA w2 : FA_BlockLoop(w2, len, size, i + size))

RECURSIVE FA_SizeLoop(_, _, _)
FA_SizeLoop(w, len, size) ==
  IF size > len THEN w
  ELSE Bind(FA_BlockLoop(w, len, size, 0), LAMBDA w2 : FA_SizeLoop(w2, len, size * 2))

\* the arrays the loops work on: padded copies when N is no power of two
FA_WorkingArrays(real, imag) ==
  IF FA_PaddedN(Len(real)) # Len(real)
  THEN Work(PadTo(real, FA_PaddedN(Len(real))), PadTo(imag, FA_PaddedN(Len(real))), {})
  ELSE Work(real, imag, {})

FA_fft1D(real, imag) ==
  LET N == Len(real)
      padded == FA_PaddedN(N) # N
  IN IF N <= 1 THEN Returned(real, imag, real, imag, TRUE, N, {})
     ELSE Bind(FA_WorkingArrays(real, imag), LAMBDA w0 :
          Bind(BitReversePermutation(w0, Len(w0.real)), LAMBDA w1 :
          Bind(FA_SizeLoop(w1, Len(w0.real), 2), LAMBDA w :
          LET len == Len(w0.real)
          IN Returned(IF N = len THEN w.real ELSE Slice(w.real, N),
                      IF N = len THEN w.imag ELSE Slice(w.imag, N),
                      IF padded THEN real ELSE w.real,
                      IF padded THEN imag ELSE w.imag,
                      N = len, len, w.oob))))

(***************************************************************************)
(* PhotoEditor.fft1D                                                       *)
(***************************************************************************)
PE_Butterfly(w, len, i, j, w_real, w_imag) ==
  LET h == i + j + len \div 2
      u_real == Get(w.real, i + j)
      u_imag == Get(w.imag, i + j)
      v_real == Sub(Mul(Get(w.real, h), w_real), Mul(Get(w.imag, h), w_imag))
      v_imag == Add(Mul(Get(w.real, h), w_imag), Mul(Get(w.imag, h), w_real))
  IN Work(Put(Put(w.real, i + j, Add(u_real, v_real)), h, Sub(u_real, v_real)),
          Put(Put(w.imag, i + j, Add(u_imag, v_imag)), h, Sub(u_imag, v_imag)),
          w.oob \cup Outside(w, {i + j, h}))

\* next_w_real = w_real * wlen_real - w_imag * wlen_imag;
\* w_imag = w_real * wlen_imag + w_imag * wlen_real;  w_real = next_w_real
PE_NextTwiddle(w_real, w_imag, len) ==
  <<Sub(Mul(w_real, Cos(1, len)), Mul(w_imag, Sin(1, len))),
    Add(Mul(w_real, Sin(1, len)), Mul(w_imag, Cos(1, len)))>>

RECURSIVE PE_InnerLoop(_, _, _, _, _, _)
PE_InnerLoop(w, len, i, j, w_real, w_imag) ==
  IF 2 * j >= len THEN w
  ELSE Bind(PE_Butterfly(w, len, i, j, w_real, w_imag), LAMBDA w2 :
       Bind(PE_NextTwiddle(w_real, w_imag, len), LAMBDA next :
       PE_InnerLoop(w2, len, i, j + 1, next[1], next[2])))

RECURSIVE PE_BlockLoop(_, _, _, _)
PE_BlockLoop(w, N, len, i) ==
  IF i >= N THEN w
  ELSE Bind(PE_InnerLoop(w, len, i, 0, Num(1), Num(0)), LAMBDA w2 :
       PE_BlockLoop(w2, N, len, i + len))

RECURSIVE PE_LenLoop(_, _, _)
PE_LenLoop(w, N, len) ==
  IF len > N THEN w
  ELSE Bind(PE_BlockLoop(w, N, len, 0), LAMBDA w2 : PE_LenLoop(w2, N, len * 2))

PE_fft1D(real, imag) ==
  LET N == Len(real)
  IN IF N <= 1 THEN Returned(real, imag, real, imag, TRUE, N, {})
     ELSE Bind(BitReversePermutation(Work(real, imag, {}), N), LAMBDA w1 :
          Bind(PE_LenLoop(w1, N, 2), LAMBDA w :
          Returned(w.real, w.imag, w.real, w.imag, FALSE, N, w.oob)))

\* the fft1D of the named implementation
fft1D(impl, real, imag) ==
  IF impl = "FFTAnalyzer" THEN FA_fft1D(real, imag) ELSE PE_fft1D(real, imag)

(***************************************************************************)
(* fft2D (the same text in both classes, each calling its own fft1D).      *)
(***************************************************************************)
\* const result = { real: new Float32Array(width * height), imag: ... } after
\* the copy loop: result.real[i] = data[i]; result.imag[i] = 0
Field(real, imag) == [real |-> real, imag |-> imag]

CopyInput(data, width, height) ==
  Field([i \in 1..(width * height) |-> Get(data, i - 1)], Zeros(width * height))

\* rowReal[x] = result.real[y * width + x] for x in 0..width-1
ExtractRow(arr, width, y) == [x \in 1..width |-> Get(arr, y * width + (x - 1))]

\* result.real[y * width + x] = rowFFT.real[x] for x in 0..width-1
StoreRow(arr, row, width, y) ==
  [i \in 1..Len(arr) |->
     IF (i - 1) \div width = y THEN Get(row, (i - 1) % width) ELSE arr[i]]

\* the column read with the height as the row stride
ExtractColumn_HeightStride(arr, width, height, x) ==
  [y \in 1..height |-> Get(arr, (y - 1) * height + x)]

\* colReal[y] = result.real[y * width + x] for y in 0..height-1
ExtractColumn(arr, width, height, x) == [y \in 1..height |-> Get(arr, (y - 1) * width + x)]

\* result.real[y * width + x] = colFFT.real[y] for y in 0..height-1
StoreColumn(arr, col, width, x) ==
  [i \in 1..Len(arr) |->
     IF (i - 1) % width = x THEN Get(col, (i - 1) \div width) ELSE arr[i]]

\* for (let y = 0; y < height; y++) { ... fft1D(rowReal, rowImag) ... }
RECURSIVE RowPass(_, _, _, _, _)
RowPass(impl, result, width, height, y) ==
  IF y >= height THEN result
  ELSE Bind(ExtractRow(result.real, width, y), LAMBDA rowReal :
       Bind(ExtractRow(result.imag, width, y), LAMBDA rowImag :
       Bind(fft1D(impl, rowReal, rowImag), LAMBDA rowFFT :
       Bind(Field(StoreRow(result.real, rowFFT.real, width, y),
                  StoreRow(result.imag, rowFFT.imag, width, y)), LAMBDA next :
       RowPass(impl, next, width, height, y + 1)))))

\* for (let x = 0; x < width; x++) { ... fft1D(colReal, colImag) ... }
RECURSIVE ColumnPass(_, _, _, _, _)
ColumnPass(impl, result, width, height, x) ==
  IF x >= width THEN result
  ELSE Bind(ExtractColumn(result.real, width, height, x), LAMBDA colReal :
       Bind(ExtractColumn(result.imag, width, height, x), LAMBDA colImag :
       Bind(fft1D(impl, colReal, colImag), LAMBDA colFFT :
       Bind(Field(StoreColumn(result.real, colFFT.real, width, x),
                  StoreColumn(result.imag, colFFT.imag, width, x)), LAMBDA next :
       ColumnPass(impl, next, width, height, x + 1)))))

fft2D(impl, data, width, height) ==
  Bind(CopyInput(data, width, height), LAMBDA copied :
  Bind(RowPass(impl, copied, width, height, 0), LAMBDA rows :
  ColumnPass(impl, rows, width, height, 0)))

(***************************************************************************)
(* computeFFT: grayscale conversion and magnitude spectrum.  The grayscale *)
(* field and everything computed from it are held in units of 1/Unit: the  *)
(* luma weights 0.299, 0.587 and 0.114 are 299, 587 and 114 such units.    *)
(***************************************************************************)
RedWeight == 299

GreenWeight == 587

BlueWeight == 114

\* the value 1.0 (the luma of white)
Unit == RedWeight + GreenWeight + BlueWeight

\* the weighted sum multiplied by the pixel's opacity alpha / 255
Grayscale_AlphaWeighted(data) ==
  [i \in 1..Len(data) |->
     Num(((RedWeight * data[i][1] + GreenWeight * data[i][2] + BlueWeight * data[i][3])
            * data[i][4]) \div (255 * 255))]

\* the weighted sum divided by 256 instead of 255
Grayscale_By256(data) ==
  [i \in 1..Len(data) |->
     Num((RedWeight * data[i][1] + GreenWeight * data[i][2] + BlueWeight * data[i][3]) \div 256)]

\* grayscale[i] = (0.299 * r + 0.587 * g + 0.114 * b) / 255
Grayscale(data) ==
  [i \in 1..Len(data) |->
     Num((RedWeight * data[i][1] + GreenWeight * data[i][2] + BlueWeight * data[i][3]) \div 255)]

\* the finite number x = (a + b*sqrt(2)) / 2^e rounded down to an integer
Floor(x) == (x[1] * 10000 + x[2] * 14142) \div (10000 * Pow2(x[3]))

RECURSIVE SqrtSearch(_, _, _)
SqrtSearch(n, lo, hi) ==
  IF lo >= hi THEN lo
  ELSE LET mid == (lo + hi + 1) \div 2
       IN IF mid * mid <= n THEN SqrtSearch(n, mid, hi) ELSE SqrtSearch(n, lo, mid - 1)

\* Math.sqrt, rounded down to the grid of representable magnitudes
Sqrt(n) == SqrtSearch(n, 0, IF n < 46340 THEN n ELSE 46340)

\* Math.sqrt(real * real + imag * imag)
MagnitudeOf(real, imag) ==
  IF IsNaN(real) \/ IsNaN(imag) THEN NaN
  ELSE Num(Sqrt(Floor(real) * Floor(real) + Floor(imag) * Floor(imag)))

Magnitude(fftResult) ==
  [i \in 1..Len(fftResult.real) |-> MagnitudeOf(fftResult.real[i], fftResult.imag[i])]

\* let maxMag = 0; ... if (magnitude[i] > maxMag) maxMag = magnitude[i];
RECURSIVE MaxMagLoop(_, _, _)
MaxMagLoop(magnitude, i, maxMag) ==
  IF i >= Len(magnitude) THEN maxMag
  ELSE LET m == Get(magnitude, i)
       IN MaxMagLoop(magnitude, i + 1, IF ~IsNaN(m) /\ m[1] > maxMag[1] THEN m ELSE maxMag)

MaxMag(magnitude) == MaxMagLoop(magnitude, 0, Num(0))

\* what computeFFT hands to visualizeFFT for a canvas of the given contents
Analysis(impl, canvas) ==
  LET grayscale == Grayscale(canvas.data)
      fftResult == fft2D(impl, grayscale, canvas.width, canvas.height)
      magnitude == Magnitude(fftResult)
  IN [magnitude |-> magnitude, width |-> canvas.width, height |-> canvas.height,
      maxMag |-> MaxMag(magnitude)]

(***************************************************************************)
(* visualizeFFT: the load handler's log scaling and zero-frequency shift.  *)
(***************************************************************************)
\* number of binary digits kept after the point by Log2
LogFracBits == 10

\* the integer part of log2(n / Unit), for n >= Unit
RECURSIVE Log2Int(_)
Log2Int(n) == IF n < 2 * Unit THEN 0 ELSE 1 + Log2Int(n \div 2)

\* the digits after the point of log2(y / Unit), for Unit <= y < 2 * Unit
RECURSIVE Log2Frac(_, _)
Log2Frac(y, bits) ==
  IF bits = 0 THEN 0
  ELSE LET y2 == (y * y) \div Unit
       IN IF y2 >= 2 * Unit
          THEN Pow2(bits - 1) + Log2Frac(y2 \div 2, bits - 1)
          ELSE Log2Frac(y2, bits - 1)

\* Math.log(n / Unit) for n >= Unit, as the multiple of log(2) / 2^LogFracBits
\* below it (the factor cancels in both normalisations)
Log(n) ==
  Log2Int(n) * Pow2(LogFracBits) + Log2Frac(n \div Pow2(Log2Int(n)), LogFracBits)

Infinity == <<1, 0, -1>>

\* Math.floor(num * 255 / den) for integers num >= 0 and den >= 0
FloorScaled(num, den) ==
  IF den = 0 THEN (IF num = 0 THEN NaN ELSE Infinity)
  ELSE Num((num * 255) \div den)

\* the quotient taken the wrong way round: maxLogMag / logMag
FA_Intensity_Inverted(mag, maxMag) ==
  IF IsNaN(mag) \/ IsNaN(maxMag) THEN NaN
  ELSE FloorScaled(Log(Unit + maxMag[1]), Log(Unit + mag[1]))

\* FFTAnalyzer: logMag = Math.log(1 + magnitude[i]); maxLogMag = Math.log(1 + maxMag);
\* intensity = Math.floor((logMag / maxLogMag) * 255)
FA_Intensity(mag, maxMag) ==
  IF IsNaN(mag) \/ IsNaN(maxMag) THEN NaN
  ELSE FloorScaled(Log(Unit + mag[1]), Log(Unit + maxMag[1]))

\* PhotoEditor: logMag = Math.log(1 + magnitude[i] / maxMag);
\* intensity = Math.floor(logMag * 255 / Math.log(2))
PE_Intensity(mag, maxMag) ==
  IF IsNaN(mag) \/ IsNaN(maxMag) THEN NaN
  ELSE IF maxMag[1] = 0 THEN (IF mag[1] = 0 THEN NaN ELSE Infinity)
  ELSE FloorScaled(Log(Unit + (mag[1] * Unit) \div maxMag[1]), Log(2 * Unit))

\* the byte a Uint8ClampedArray stores for a value: NaN is stored as 0
ToUint8Clamped(v) ==
  IF v = NaN THEN 0
  ELSE IF v = Infinity THEN 255
  ELSE IF v[1] < 0 THEN 0
  ELSE IF v[1] > 255 THEN 255
  ELSE v[1]

\* FFTAnalyzer: i = shiftedY * width + shiftedX with
\* shiftedX = (x + Math.floor(width / 2)) % width, likewise shiftedY
FA_ShiftedIndex(width, height, x, y) ==
  LET shiftedX == (x + width \div 2) % width
      shiftedY == (y + height \div 2) % height
  IN shiftedY * width + shiftedX

\* PhotoEditor: twice the number i = shiftedY * width + shiftedX with
\* shiftedX = (x + width / 2) % width, likewise shiftedY, in real arithmetic
PE_TwiceShiftedIndex(width, height, x, y) ==
  LET shiftedX2 == (2 * x + width) % (2 * width)
      shiftedY2 == (2 * y + height) % (2 * height)
  IN shiftedY2 * width + shiftedX2

\* the shift left out: the element magnitude[y * width + x]
FA_Source_Unshifted(magnitude, width, height, x, y) == Get(magnitude, y * width + x)

\* FFTAnalyzer: shiftedX = (x + Math.floor(width / 2)) % width, likewise shiftedY;
\* the element magnitude[shiftedY * width + shiftedX]
FA_Source(magnitude, width, height, x, y) ==
  Get(magnitude, FA_ShiftedIndex(width, height, x, y))

\* PhotoEditor: shiftedX = (x + width / 2) % width, likewise shiftedY, in real
\* arithmetic (computed here on the doubled values); magnitude[i] is undefined
\* when i = shiftedY * width + shiftedX is no integer or lies outside the array
PE_Source(magnitude, width, height, x, y) ==
  LET i2 == PE_TwiceShiftedIndex(width, height, x, y)
  IN IF i2 % 2 = 0 THEN Get(magnitude, i2 \div 2) ELSE NaN

\* the intensity computed for destination pixel (x, y)
PixelIntensity(impl, win, x, y) ==
  IF impl = "FFTAnalyzer"
  THEN FA_Intensity(FA_Source(win.magnitude, win.width, win.height, x, y), win.maxMag)
  ELSE PE_Intensity(PE_Source(win.magnitude, win.width, win.height, x, y), win.maxMag)

\* the intensities the two nested loops compute, at originalI = y * width + x
Intensities(impl, win) ==
  [originalI \in 1..(win.width * win.height) |->
     PixelIntensity(impl, win, (originalI - 1) % win.width, (originalI - 1) \div win.width)]

\* fftImageData.data after the loops: intensity in R, G and B, alpha 255
Visualization(intensities) ==
  [originalI \in 1..Len(intensities) |->
     LET v == ToUint8Clamped(intensities[originalI]) IN <<v, v, v, 255>>]

(***************************************************************************)
(* State.                                                                  *)
(*   variant        which editor runs: "monolith" is the PhotoEditor class *)
(*                  of app.js with its own FFT methods, "modular" the      *)
(*                  PhotoEditor of part_000 that delegates to FFTAnalyzer  *)
(*   file           the image file the user picks in the file input        *)
(*   uploading      a file upload has started and its image has not loaded *)
(*   isImageLoaded  state.isImageLoaded                                    *)
(*   bgCanvas       the background canvas: width, height, RGBA pixels      *)
(*   notes          the showStatusMessage calls of the latest handler run, *)
(*                  each <<message, type>>                                 *)
(*   windows        the windows opened by visualizeFFT, in opening order   *)
(*   call           one function-level call: the function, its arguments   *)
(*                  and, once it has returned, what it returned            *)
(***************************************************************************)
VARIABLES variant, file, uploading, isImageLoaded, bgCanvas, notes, windows, call

vars == <<variant, file, uploading, isImageLoaded, bgCanvas, notes, windows, call>>

editor == <<variant, file, uploading, isImageLoaded, bgCanvas, notes, windows>>

NotCalled == [fn |-> "none"]

Canvas(width, height, data) == [width |-> width, height |-> height, data |-> data]

\* the background canvas before an image is drawn on it; every reader of the
\* canvas is guarded by isImageLoaded, so its blank default is never read
NoCanvas == Canvas(0, 0, <<>>)

\* the editor right after its constructor (initializeState)
InitEditor(v, f) ==
  /\ variant = v
  /\ file = f
  /\ uploading = FALSE
  /\ isImageLoaded = FALSE
  /\ bgCanvas = NoCanvas
  /\ notes = <<>>
  /\ windows = <<>>

(***************************************************************************)
(* Function-level specification of fft1D: Init draws the implementation    *)
(* and the argument arrays, the actions run the call.                      *)
(***************************************************************************)
\* the non-zero complex entries <<re, im>> the argument arrays are drawn from
NonZeroEntries == {<<1, 0>>, <<0, 1>>, <<2, 0 - 1>>}

\* the sets of at most k of the positions 1..n
Positions(n, k) == { {p[i] : i \in 1..k} \ {0} : p \in [1..k -> 0..n] }

\* the complex sequences of length N with at most MaxNonZero non-zero entries
SparseInputs(N) ==
  UNION { { [k \in 1..N |-> IF k \in P THEN v[k] ELSE <<0, 0>>] : v \in [P -> NonZeroEntries] }
          : P \in Positions(N, MaxNonZero) }

RealOf(x) == [k \in 1..Len(x) |-> Num(x[k][1])]

ImagOf(x) == [k \in 1..Len(x) |-> Num(x[k][2])]

Fft1DCall(impl, x) ==
  [fn |-> "fft1D", impl |-> impl, real |-> RealOf(x), imag |-> ImagOf(x), done |-> FALSE]

InitFFT1D ==
  /\ InitEditor("modular", NoCanvas)
  /\ call \in { Fft1DCall(impl, x) :
                 impl \in {"FFTAnalyzer", "PhotoEditor"},
                 x \in UNION {SparseInputs(N) : N \in 0..MaxN} }

Call_FA_fft1D ==
  /\ call.fn = "fft1D" /\ call.impl = "FFTAnalyzer" /\ ~call.done
  /\ call' = [fn |-> "fft1D", impl |-> call.impl, real |-> call.real, imag |-> call.imag,
              done |-> TRUE, ret |-> FA_fft1D(call.real, call.imag)]
  /\ UNCHANGED editor

Call_PE_fft1D ==
  /\ call.fn = "fft1D" /\ call.impl = "PhotoEditor" /\ ~call.done
  /\ call' = [fn |-> "fft1D", impl |-> call.impl, real |-> call.real, imag |-> call.imag,
              done |-> TRUE, ret |-> PE_fft1D(call.real, call.imag)]
  /\ UNCHANGED editor

NextFFT1D == Call_FA_fft1D \/ Call_PE_fft1D

SpecFFT1D == InitFFT1D /\ [][NextFFT1D]_vars

\* a finished fft1D call
Fft1DDone == call.fn = "fft1D" /\ call.done

(***************************************************************************)
(* The discrete Fourier transform by its defining sum, for the claims.     *)
(***************************************************************************)
IsPowerOfTwo(n) == n \in {Pow2(k) : k \in 0..n}

\* the smallest power of two >= n
NextPowerOfTwo(n) ==
  CHOOSE p \in {Pow2(k) : k \in 0..n} :
    p >= n /\ \A q \in {Pow2(k) : k \in 0..n} : q >= n => p <= q

\* sum over n of Re / Im of x[n] * e^(-2*pi*i*k*n/N), n from m down to 0
RECURSIVE DftSumReal(_, _, _, _)
DftSumReal(real, imag, k, m) ==
  IF m < 0 THEN Num(0)
  ELSE LET N == Len(real)
           t == (k * m) % N
       IN Add(DftSumReal(real, imag, k, m - 1),
              Sub(Mul(real[m + 1], Cos(t, N)), Mul(imag[m + 1], Sin(t, N))))

RECURSIVE DftSumImag(_, _, _, _)
DftSumImag(real, imag, k, m) ==
  IF m < 0 THEN Num(0)
  ELSE LET N == Len(real)
           t == (k * m) % N
       IN Add(DftSumImag(real, imag, k, m - 1),
              Add(Mul(real[m + 1], Sin(t, N)), Mul(imag[m + 1], Cos(t, N))))

DftReal(real, imag) == [k \in 1..Len(real) |-> DftSumReal(real, imag, k - 1, Len(real) - 1)]

DftImag(real, imag) == [k \in 1..Len(real) |-> DftSumImag(real, imag, k - 1, Len(real) - 1)]

(***************************************************************************)
(* C1: for every power-of-two length N >= 2, fft1D (both implementations)  *)
(* returns the forward, unnormalized DFT of its complex input:             *)
(* out[k] = sum_n in[n] * e^(-2*pi*i*k*n/N), no 1/N scaling.               *)
(***************************************************************************)
C1_PowerOfTwoIsDft ==
  (Fft1DDone /\ Len(call.real) >= 2 /\ IsPowerOfTwo(Len(call.real)))
    => /\ call.ret.real = DftReal(call.real, call.imag)
       /\ call.ret.imag = DftImag(call.real, call.imag)

\* reached: a 4-point call of PhotoEditor.fft1D on an input with a non-zero
\* imaginary part has returned a spectrum that is not constant
C1_Witness ==
  /\ Fft1DDone /\ call.impl = "PhotoEditor" /\ Len(call.real) = 4
  /\ \E k \in 1..4 : call.imag[k] # Num(0)
  /\ \E k \in 1..4 : call.ret.real[k] # call.ret.real[1]

(***************************************************************************)
(* C2: for every length N >= 2 that is not a power of two,                 *)
(* FFTAnalyzer.fft1D works on the sequences zero-padded to P, the smallest *)
(* power of two >= N, and returns arrays of length exactly N holding the   *)
(* first N entries of the P-point transform of the padded sequences.       *)
(***************************************************************************)
C2_PadTransformTruncate ==
  (Fft1DDone /\ call.impl = "FFTAnalyzer" /\ Len(call.real) >= 2
     /\ ~IsPowerOfTwo(Len(call.real)))
    => LET N == Len(call.real)
           P == NextPowerOfTwo(N)
           paddedReal == PadTo(call.real, P)
           paddedImag == PadTo(call.imag, P)
       IN /\ call.ret.len = P
          /\ Len(call.ret.real) = N /\ Len(call.ret.imag) = N
          /\ call.ret.real = Slice(DftReal(paddedReal, paddedImag), N)
          /\ call.ret.imag = Slice(DftImag(paddedReal, paddedImag), N)

\* reached: a 5-point call of FFTAnalyzer.fft1D padded to 8 has returned 5 entries
C2_Witness ==
  /\ Fft1DDone /\ call.impl = "FFTAnalyzer" /\ Len(call.real) = 5
  /\ call.ret.len = 8 /\ Len(call.ret.real) = 5
  /\ \E k \in 1..5 : call.ret.imag[k] # Num(0)

(***************************************************************************)
(* C3: in every fft1D implementation and for every length N >= 2, the      *)
(* working length of the bit-reversal and butterfly loops is a power of    *)
(* two >= N, and every index those loops read or write lies inside the     *)
(* working arrays.                                                         *)
(***************************************************************************)
C3_WorkingLengthPowerOfTwo ==
  (Fft1DDone /\ Len(call.real) >= 2)
    => /\ IsPowerOfTwo(call.ret.len)
       /\ call.ret.len >= Len(call.real)
       /\ call.ret.oob = {}

(***************************************************************************)
(* C5: for N >= 2, the arrays fft1D returns are different objects from the *)
(* arrays passed in, and the arrays passed in hold the same values after   *)
(* the call as before it.                                                  *)
(***************************************************************************)
C5_ReturnsFreshArrays ==
  (Fft1DDone /\ Len(call.real) >= 2)
    => /\ ~call.ret.sameObject
       /\ call.ret.argReal = call.real
       /\ call.ret.argImag = call.imag

\* the call's arguments are all zero
IsZeroInput == \A k \in 1..Len(call.real) : call.real[k] = Num(0) /\ call.imag[k] = Num(0)

(***************************************************************************)
(* C12: for every length N >= 0, fft1D on all-zero real and imaginary      *)
(* inputs returns all-zero real and imaginary outputs of length exactly N. *)
(***************************************************************************)
C12_ZeroInZeroOut ==
  (Fft1DDone /\ IsZeroInput)
    => /\ call.ret.real = Zeros(Len(call.real))
       /\ call.ret.imag = Zeros(Len(call.real))

\* the call's arguments are the impulse: real[0] = 1, every other entry 0
IsImpulseInput ==
  /\ Len(call.real) >= 1
  /\ \A k \in 1..Len(call.real) :
       call.real[k] = (IF k = 1 THEN Num(1) ELSE Num(0)) /\ call.imag[k] = Num(0)

(***************************************************************************)
(* C13: for every power-of-two length N, FFTAnalyzer.fft1D on the impulse  *)
(* (real[0] = 1, all else 0) returns an output of magnitude exactly 1 at   *)
(* every bin: real[k]^2 + imag[k]^2 = 1 for k in 0..N-1.                   *)
(***************************************************************************)
C13_ImpulseMagnitudeOne ==
  (Fft1DDone /\ call.impl = "FFTAnalyzer" /\ IsImpulseInput /\ IsPowerOfTwo(Len(call.real)))
    => /\ Len(call.ret.real) = Len(call.real) /\ Len(call.ret.imag) = Len(call.real)
       /\ \A k \in 1..Len(call.real) :
            Add(Mul(call.ret.real[k], call.ret.real[k]),
                Mul(call.ret.imag[k], call.ret.imag[k])) = Num(1)

\* reached: FFTAnalyzer.fft1D has returned the transform of the 4-point impulse
C13_Witness ==
  /\ Fft1DDone /\ call.impl = "FFTAnalyzer" /\ IsImpulseInput /\ Len(call.real) = 4
  /\ call.ret.len = 4

(***************************************************************************)
(* C14: FFTAnalyzer.fft1D returns for every N >= 0; for N <= 1 it returns  *)
(* the input sequences unchanged; for N a power of two nothing is padded   *)
(* or truncated and the output length is N.                                *)
(***************************************************************************)
C14_TrivialAndUnpadded ==
  (Fft1DDone /\ call.impl = "FFTAnalyzer")
    => /\ Len(call.real) <= 1
            => /\ call.ret.real = call.real /\ call.ret.imag = call.imag
               /\ call.ret.sameObject
       /\ IsPowerOfTwo(Len(call.real))
            => /\ call.ret.len = Len(call.real)
               /\ call.ret.sameObject
               /\ Len(call.ret.real) = Len(call.real) /\ Len(call.ret.imag) = Len(call.real)

\* reached: FFTAnalyzer.fft1D has returned from a 4-point call that worked on
\* the caller's arrays, and changed them
C14_Witness ==
  /\ Fft1DDone /\ call.impl = "FFTAnalyzer" /\ Len(call.real) = 4
  /\ call.ret.len = 4 /\ call.ret.sameObject
  /\ call.ret.real # call.real

(***************************************************************************)
(* Function-level specification of FFTAnalyzer.fft1D on a pair: Init draws *)
(* two complex sequences a and b of one length, the action calls fft1D on  *)
(* a, on b and on a + b, each time on arrays of its own.                   *)
(***************************************************************************)
\* the complex sequences of length N with at most k non-zero entries
SparseUpTo(N, k) ==
  UNION { { [i \in 1..N |-> IF i \in P THEN v[i] ELSE <<0, 0>>] : v \in [P -> NonZeroEntries] }
          : P \in Positions(N, k) }

\* the complex sequences of length N with exactly one non-zero entry
Impulses(N) ==
  { [i \in 1..N |-> IF i = p THEN v ELSE <<0, 0>>] : p \in 1..N, v \in NonZeroEntries }

\* a + b, element by element
SumOf(a, b) == [i \in 1..Len(a) |-> <<a[i][1] + b[i][1], a[i][2] + b[i][2]>>]

PairCall(a, b) == [fn |-> "fft1D pair", a |-> a, b |-> b, done |-> FALSE]

InitPair ==
  /\ InitEditor("modular", NoCanvas)
  /\ call \in UNION { { PairCall(a, b) : a \in SparseUpTo(N, MaxPairNonZero),
                                         b \in Impulses(N) \cup {[i \in 1..N |-> <<0, 0>>]} }
                      : N \in 0..MaxPairN }

Call_FA_fft1D_pair ==
  /\ call.fn = "fft1D pair" /\ ~call.done
  /\ call' = [fn |-> "fft1D pair", a |-> call.a, b |-> call.b, done |-> TRUE,
              retA |-> FA_fft1D(RealOf(call.a), ImagOf(call.a)),
              retB |-> FA_fft1D(RealOf(call.b), ImagOf(call.b)),
              retSum |-> FA_fft1D(RealOf(SumOf(call.a, call.b)), ImagOf(SumOf(call.a, call.b)))]
  /\ UNCHANGED editor

NextPair == Call_FA_fft1D_pair

SpecPair == InitPair /\ [][NextPair]_vars

\* the three calls on a pair have returned
PairDone == call.fn = "fft1D pair" /\ call.done

(***************************************************************************)
(* C11: fft1D is linear: for every length N and equal-length complex a, b, *)
(* fft1D(a + b) = fft1D(a) + fft1D(b) element by element, in the real and  *)
(* in the imaginary part, also on the pad/truncate path.                   *)
(***************************************************************************)
C11_Linear ==
  PairDone
    => /\ Len(call.retSum.real) = Len(call.a) /\ Len(call.retSum.imag) = Len(call.a)
       /\ Len(call.retA.real) = Len(call.a) /\ Len(call.retB.real) = Len(call.a)
       /\ \A k \in 1..Len(call.a) :
            /\ call.retSum.real[k] = Add(call.retA.real[k], call.retB.real[k])
            /\ call.retSum.imag[k] = Add(call.retA.imag[k], call.retB.imag[k])

\* reached: the three calls have returned for two non-zero sequences of length
\* 5 (padded to 8) whose transforms differ
C11_Witness ==
  /\ PairDone /\ Len(call.a) = 5 /\ call.retSum.len = 8
  /\ call.retA.real # call.retB.real
  /\ \E k \in 1..5 : call.retA.imag[k] # Num(0)
  /\ \E k \in 1..5 : call.retB.real[k] # Num(0)

(***************************************************************************)
(* Function-level specification of fft2D: Init draws the implementation,   *)
(* the extent and the field, the actions run the call.                     *)
(***************************************************************************)
\* the real fields of n elements with at most MaxFieldNonZero non-zero elements;
\* a non-zero element at position i holds the value i
SparseFields(n) ==
  { [i \in 1..n |-> IF i \in P THEN Num(i) ELSE Num(0)] : P \in Positions(n, MaxFieldNonZero) }

Fft2DCall(impl, width, height, data) ==
  [fn |-> "fft2D", impl |-> impl, data |-> data, width |-> width, height |-> height,
   done |-> FALSE]

InitFFT2D ==
  /\ InitEditor("modular", NoCanvas)
  /\ call \in UNION { { Fft2DCall(impl, d[1], d[2], data) :
                          impl \in {"FFTAnalyzer", "PhotoEditor"},
                          data \in SparseFields(d[1] * d[2]) }
                      : d \in (1..MaxDim) \X (1..MaxDim) }

Call_FA_fft2D ==
  /\ call.fn = "fft2D" /\ call.impl = "FFTAnalyzer" /\ ~call.done
  /\ call' = [fn |-> "fft2D", impl |-> call.impl, data |-> call.data,
              width |-> call.width, height |-> call.height, done |-> TRUE,
              ret |-> fft2D("FFTAnalyzer", call.data, call.width, call.height)]
  /\ UNCHANGED editor

Call_PE_fft2D ==
  /\ call.fn = "fft2D" /\ call.impl = "PhotoEditor" /\ ~call.done
  /\ call' = [fn |-> "fft2D", impl |-> call.impl, data |-> call.data,
              width |-> call.width, height |-> call.height, done |-> TRUE,
              ret |-> fft2D("PhotoEditor", call.data, call.width, call.height)]
  /\ UNCHANGED editor

NextFFT2D == Call_FA_fft2D \/ Call_PE_fft2D

SpecFFT2D == InitFFT2D /\ [][NextFFT2D]_vars

\* a finished fft2D call
Fft2DDone == call.fn = "fft2D" /\ call.done

\* fft1D on every column of the field and then on every row
ColumnsThenRows(impl, data, width, height) ==
  RowPass(impl, ColumnPass(impl, CopyInput(data, width, height), width, height, 0),
          width, height, 0)

(***************************************************************************)
(* C10: for a W x H field with W and H both powers of two, fft1D on every  *)
(* row and then on every column (what fft2D returns) gives the same        *)
(* complex field as fft1D on every column and then on every row.           *)
(***************************************************************************)
C10_RowsColumnsCommute ==
  (Fft2DDone /\ IsPowerOfTwo(call.width) /\ IsPowerOfTwo(call.height))
    => call.ret = ColumnsThenRows(call.impl, call.data, call.width, call.height)

\* reached: fft2D of a 4 x 2 field has returned a spectrum with a non-zero
\* imaginary part that differs from row to row
C10_Witness ==
  /\ Fft2DDone /\ call.width = 4 /\ call.height = 2
  /\ \E i \in 1..8 : call.ret.imag[i] # Num(0)
  /\ \E i \in 1..4 : call.ret.real[i] # call.ret.real[i + 4]

(***************************************************************************)
(* Function-level specification of the intensity scaling of visualizeFFT:  *)
(* Init draws the implementation, two source magnitudes low <= high and    *)
(* the maximum magnitude; the actions run the body of the pixel loop on    *)
(* low, high and the maximum and store each intensity in the buffer.       *)
(***************************************************************************)
Magnitudes == {k * MagStep : k \in 0..MagSteps}

IntensityCall(impl, low, high, maxMag) ==
  [fn |-> "intensity", impl |-> impl, low |-> low, high |-> high, maxMag |-> maxMag,
   done |-> FALSE]

InitIntensity ==
  /\ InitEditor("modular", NoCanvas)
  /\ call \in { IntensityCall(impl, m[1], m[2], m[3]) :
                  impl \in {"FFTAnalyzer", "PhotoEditor"},
                  m \in {t \in Magnitudes \X Magnitudes \X Magnitudes :
                           t[1] <= t[2] /\ t[2] <= t[3]} }

\* fftImageData.data[originalI * 4] = intensity, for a source magnitude mag
FA_Written(mag, maxMag) == ToUint8Clamped(FA_Intensity(Num(mag), Num(maxMag)))

PE_Written(mag, maxMag) == ToUint8Clamped(PE_Intensity(Num(mag), Num(maxMag)))

Call_FA_intensity ==
  /\ call.fn = "intensity" /\ call.impl = "FFTAnalyzer" /\ ~call.done
  /\ call' = [fn |-> "intensity", impl |-> call.impl, low |-> call.low, high |-> call.high,
              maxMag |-> call.maxMag, done |-> TRUE,
              ret |-> [low |-> FA_Written(call.low, call.maxMag),
                       high |-> FA_Written(call.high, call.maxMag),
                       max |-> FA_Written(call.maxMag, call.maxMag)]]
  /\ UNCHANGED editor

Call_PE_intensity ==
  /\ call.fn = "intensity" /\ call.impl = "PhotoEditor" /\ ~call.done
  /\ call' = [fn |-> "intensity", impl |-> call.impl, low |-> call.low, high |-> call.high,
              maxMag |-> call.maxMag, done |-> TRUE,
              ret |-> [low |-> PE_Written(call.low, call.maxMag),
                       high |-> PE_Written(call.high, call.maxMag),
                       max |-> PE_Written(call.maxMag, call.maxMag)]]
  /\ UNCHANGED editor

NextIntensity == Call_FA_intensity \/ Call_PE_intensity

SpecIntensity == InitIntensity /\ [][NextIntensity]_vars

\* a finished run of the pixel loop's body
IntensityDone == call.fn = "intensity" /\ call.done

(***************************************************************************)
(* C8: the intensity written for a pixel is an integer in 0..255, does not *)
(* decrease when the source magnitude grows, is 0 for the source magnitude *)
(* 0, and is 255 for a source magnitude equal to the maximum magnitude     *)
(* when that maximum is > 0.                                               *)
(***************************************************************************)
C8_IntensityScale ==
  IntensityDone
    => /\ {call.ret.low, call.ret.high, call.ret.max} \subseteq 0..255
       /\ call.ret.low <= call.ret.high
       /\ call.ret.high <= call.ret.max
       /\ (call.low = 0 => call.ret.low = 0)
       /\ (call.maxMag > 0 => call.ret.max = 255)

\* reached: PhotoEditor's scaling has written three different intensities, the
\* smallest of them above 0 and the largest 255, for three different magnitudes
C8_Witness ==
  /\ IntensityDone /\ call.impl = "PhotoEditor"
  /\ 0 < call.ret.low /\ call.ret.low < call.ret.high /\ call.ret.high < call.ret.max
  /\ call.ret.max = 255

(***************************************************************************)
(* The editor: image upload, computeFFT and the spectrum window.           *)
(***************************************************************************)
Black == <<0, 0, 0, 255>>

White == <<255, 255, 255, 255>>

Red == <<255, 0, 0, 255>>

Palette == {Black, White, Red}

\* the image files: one colour throughout, or one white pixel on black or red
Files ==
  UNION { { Canvas(w, h, [i \in 1..(w * h) |-> c]) : c \in Palette }
          \cup { Canvas(w, h, [i \in 1..(w * h) |-> IF i = p THEN White ELSE c]) :
                   c \in {Black, Red}, p \in 1..(w * h) }
          : w \in 1..MaxWidth, h \in 1..MaxHeight }

Init ==
  /\ variant \in {"monolith", "modular"}
  /\ file \in Files
  /\ uploading = FALSE
  /\ isImageLoaded = FALSE
  /\ bgCanvas = NoCanvas
  /\ notes = <<>>
  /\ windows = <<>>
  /\ call = NotCalled

Note(message, type) == <<message, type>>

\* handleFileUpload up to its await, for a file that passes the checks
handleFileUpload ==
  /\ ~uploading
  /\ uploading' = TRUE
  /\ notes' = <<Note("Loading image...", "info")>>
  /\ UNCHANGED <<variant, file, isImageLoaded, bgCanvas, windows, call>>

\* handleFileUpload for a file that is no image or is too large: the monolith
\* checks before it reports progress, ImageProcessor.loadImage throws after it
handleFileUploadRejected ==
  /\ ~uploading
  /\ notes' = IF variant = "monolith"
              THEN <<Note("Please select a valid image file.", "error")>>
              ELSE <<Note("Loading image...", "info"),
                     Note("Please select a valid image file.", "error")>>
  /\ UNCHANGED <<variant, file, uploading, isImageLoaded, bgCanvas, windows, call>>

\* img.onload: processLoadedImage, then the rest of handleFileUpload
imgOnload ==
  /\ uploading
  /\ uploading' = FALSE
  /\ bgCanvas' = file
  /\ isImageLoaded' = TRUE
  /\ notes' = <<Note("Image loaded successfully!", "success")>>
  /\ UNCHANGED <<variant, file, windows, call>>

\* the window visualizeFFT opens: what the load handler closes over, the pixels
\* the canvas held when computeFFT read it, and the canvas of the window
Window(impl, analysis, raster) ==
  [impl |-> impl, magnitude |-> analysis.magnitude, width |-> analysis.width,
   height |-> analysis.height, maxMag |-> analysis.maxMag, raster |-> raster,
   loaded |-> FALSE, intensity |-> <<>>, imageData |-> <<>>]

\* the try block with the success message issued after the catch block
TryComputeFFT_SuccessAfterCatch(impl, opened) ==
  IF opened
  THEN /\ windows' = Append(windows, Window(impl, Analysis(impl, bgCanvas), bgCanvas.data))
       /\ notes' = <<Note("Computing FFT...", "info"),
                     Note("FFT computed and displayed!", "success")>>
  ELSE /\ windows' = windows
       /\ notes' = <<Note("Computing FFT...", "info"),
                     Note("Failed to compute FFT.", "error"),
                     Note("FFT computed and displayed!", "success")>>

\* the try block of computeFFT: window.open returns null when the popup is
\* blocked, and visualizeFFT then throws on fftWindow.document
TryComputeFFT(impl, opened) ==
  IF opened
  THEN /\ windows' = Append(windows, Window(impl, Analysis(impl, bgCanvas), bgCanvas.data))
       /\ notes' = <<Note("Computing FFT...", "info"),
                     Note("FFT computed and displayed!", "success")>>
  ELSE /\ windows' = windows
       /\ notes' = <<Note("Computing FFT...", "info"),
                     Note("Failed to compute FFT.", "error")>>

\* computeFFT without the isImageLoaded check
PE_computeFFT_Unguarded ==
  /\ variant = "monolith"
  /\ Len(windows) < MaxWindows
  /\ \E opened \in BOOLEAN : TryComputeFFT("PhotoEditor", opened)
  /\ UNCHANGED <<variant, file, uploading, isImageLoaded, bgCanvas, call>>

\* PhotoEditor.computeFFT of app.js
PE_computeFFT ==
  /\ variant = "monolith"
  /\ IF ~isImageLoaded
     THEN /\ notes' = <<Note("Please load an image first.", "warning")>>
          /\ windows' = windows
     ELSE /\ Len(windows) < MaxWindows
          /\ \E opened \in BOOLEAN : TryComputeFFT("PhotoEditor", opened)
  /\ UNCHANGED <<variant, file, uploading, isImageLoaded, bgCanvas, call>>

\* PhotoEditor.computeFFT of part_000, which calls FFTAnalyzer.computeFFT
FA_computeFFT ==
  /\ variant = "modular"
  /\ IF ~isImageLoaded
     THEN /\ notes' = <<Note("Please load an image first.", "warning")>>
          /\ windows' = windows
     ELSE /\ Len(windows) < MaxWindows
          /\ \E opened \in BOOLEAN : TryComputeFFT("FFTAnalyzer", opened)
  /\ UNCHANGED <<variant, file, uploading, isImageLoaded, bgCanvas, call>>

\* the 'load' listener of a spectrum window: compute the buffer, putImageData
windowLoad(k) ==
  /\ ~windows[k].loaded
  /\ LET intensities == Intensities(windows[k].impl, windows[k])
     IN windows' = [windows EXCEPT ![k] =
                      [@ EXCEPT !.loaded = TRUE,
                                !.intensity = intensities,
                                !.imageData = Visualization(intensities)]]
  /\ UNCHANGED <<variant, file, uploading, isImageLoaded, bgCanvas, notes, call>>

Next ==
  \/ handleFileUpload
  \/ handleFileUploadRejected
  \/ imgOnload
  \/ PE_computeFFT
  \/ FA_computeFFT
  \/ \E k \in 1..Len(windows) : windowLoad(k)

Spec == Init /\ [][Next]_vars
\* the spectrum windows whose load handler has run
LoadedWindows == {k \in 1..Len(windows) : windows[k].loaded}

\* the image the window was computed from has one colour throughout
IsUniform(raster) == \A i \in 1..Len(raster) : raster[i] = raster[1]

(***************************************************************************)
(* C4: for a uniform image of any width W >= 1 and height H >= 1, the      *)
(* magnitude spectrum of the FFTAnalyzer pipeline is non-zero only at the  *)
(* DC bin (0,0), and the visualization buffer has its single non-zero      *)
(* pixel at (W/2, H/2), every other pixel at intensity 0.                  *)
(***************************************************************************)
C4_UniformImageDcOnly ==
  \A k \in LoadedWindows :
    LET win == windows[k]
        centre == (win.height \div 2) * win.width + win.width \div 2
    IN (win.impl = "FFTAnalyzer" /\ IsUniform(win.raster))
         => /\ \A i \in 1..Len(win.magnitude) : i # 1 => win.magnitude[i] = Num(0)
            /\ \A i \in 1..Len(win.imageData) :
                 win.imageData[i][1] # 0 <=> i = centre + 1

\* C4 as amended: for a uniform image that is not black and whose width W and
\* height H are powers of two, the magnitude spectrum of the FFTAnalyzer
\* pipeline is non-zero only at the DC bin (0,0), and the visualization buffer
\* holds 255 at (floor(W/2), floor(H/2)) and 0 at every other pixel
C4_UniformPowerOfTwoDcOnly ==
  \A k \in LoadedWindows :
    LET win == windows[k]
        centre == (win.height \div 2) * win.width + win.width \div 2
    IN (/\ win.impl = "FFTAnalyzer" /\ IsUniform(win.raster)
        /\ win.raster[1] # Black
        /\ IsPowerOfTwo(win.width) /\ IsPowerOfTwo(win.height))
         => /\ \A i \in 1..Len(win.magnitude) : win.magnitude[i] # Num(0) <=> i = 1
            /\ \A i \in 1..Len(win.imageData) :
                 win.imageData[i] = IF i = centre + 1 THEN <<255, 255, 255, 255>> ELSE Black

\* reached: the window of a uniform red 4 x 2 image, computed by FFTAnalyzer,
\* has been drawn with its bright pixel at (2, 1)
C4_Witness ==
  \E k \in LoadedWindows :
    /\ windows[k].impl = "FFTAnalyzer" /\ IsUniform(windows[k].raster)
    /\ windows[k].raster[1] = Red
    /\ windows[k].width = 4 /\ windows[k].height = 2
    /\ windows[k].imageData[7] = <<255, 255, 255, 255>>

(***************************************************************************)
(* C6: computeFFT is synchronous: when the success notification            *)
(* 'FFT computed and displayed!' has been issued, the visualization buffer *)
(* of that invocation has been computed and put on the window's canvas.    *)
(***************************************************************************)
C6_BufferBeforeSuccess ==
  (\E n \in 1..Len(notes) : notes[n] = Note("FFT computed and displayed!", "success"))
    => /\ Len(windows) > 0
       /\ windows[Len(windows)].loaded

(***************************************************************************)
(* C7: for every raster, an all-black one included, the magnitude and      *)
(* log-scaling stages perform no undefined arithmetic: every magnitude and *)
(* every pixel's intensity is a defined, finite number.                    *)
(***************************************************************************)
C7_IntensityDefined ==
  \A k \in LoadedWindows :
    /\ \A i \in 1..Len(windows[k].magnitude) : ~IsNaN(windows[k].magnitude[i])
    /\ \A i \in 1..Len(windows[k].intensity) :
         windows[k].intensity[i] \notin {NaN, Infinity}

(***************************************************************************)
(* C9: for every destination pixel (x, y), the buffer entry at index       *)
(* y*W + x is the intensity of magnitude[srcY*W + srcX] with               *)
(* srcX = (x + W/2) mod W and srcY = (y + H/2) mod H, replicated into R, G *)
(* and B with alpha 255: the shift is applied to the read index only.      *)
(***************************************************************************)
C9_ShiftOnRead ==
  \A k \in LoadedWindows :
    LET win == windows[k]
    IN \A x \in 0..(win.width - 1), y \in 0..(win.height - 1) :
         LET srcX == (x + win.width \div 2) % win.width
             srcY == (y + win.height \div 2) % win.height
             source == Get(win.magnitude, srcY * win.width + srcX)
             v == ToUint8Clamped(IF win.impl = "FFTAnalyzer"
                                 THEN FA_Intensity(source, win.maxMag)
                                 ELSE PE_Intensity(source, win.maxMag))
         IN win.imageData[y * win.width + x + 1] = <<v, v, v, 255>>

\* the windows computed from the 2 x 2 all-white image
WhiteSquareWindows ==
  {k \in 1..Len(windows) :
     /\ windows[k].width = 2 /\ windows[k].height = 2
     /\ windows[k].raster = <<White, White, White, White>>}

(***************************************************************************)
(* C15: end to end on a 2 x 2 all-white image: the grayscale field is      *)
(* [1,1,1,1], the 2D FFT is 4 at (0,0) and 0 at the other bins, the        *)
(* magnitude spectrum is [4,0,0,0] with maximum 4, and the visualization   *)
(* buffer has intensity 255 at pixel (1,1) and 0 at the other pixels.      *)
(***************************************************************************)
C15_WhiteSquareEndToEnd ==
  \A k \in WhiteSquareWindows :
    LET win == windows[k]
        one == Num(Unit)
        four == Num(4 * Unit)
        zero == Num(0)
        dark == <<0, 0, 0, 255>>
    IN /\ Grayscale(win.raster) = <<one, one, one, one>>
       /\ fft2D(win.impl, Grayscale(win.raster), 2, 2)
            = Field(<<four, zero, zero, zero>>, <<zero, zero, zero, zero>>)
       /\ win.magnitude = <<four, zero, zero, zero>>
       /\ win.maxMag = four
       /\ win.loaded => win.imageData = <<dark, dark, dark, <<255, 255, 255, 255>>>>

\* reached: the window of the 2 x 2 all-white image has been drawn by the
\* monolithic editor
C15_Witness ==
  \E k \in WhiteSquareWindows :
    /\ windows[k].loaded /\ windows[k].impl = "PhotoEditor"
    /\ windows[k].imageData[4][1] = 255

(***************************************************************************)
(* C16: every entry of the magnitude spectrum is >= 0, and the maxMag      *)
(* handed to visualizeFFT is the maximum entry of the magnitude array: >=  *)
(* every entry and, when W*H > 0, equal to one of them.                    *)
(***************************************************************************)
C16_MaxMagIsMaximum ==
  \A k \in 1..Len(windows) :
    LET win == windows[k]
    IN /\ \A i \in 1..Len(win.magnitude) :
            /\ ~IsNaN(win.magnitude[i]) /\ win.magnitude[i][1] >= 0
            /\ win.maxMag[1] >= win.magnitude[i][1]
       /\ Len(win.magnitude) > 0 => \E i \in 1..Len(win.magnitude) : win.maxMag = win.magnitude[i]

(***************************************************************************)
(* C18: when no image is loaded, the editor's computeFFT does not invoke   *)
(* the analyzer (no window is opened, no "Computing FFT..." is reported),  *)
(* issues exactly one notification, of type 'warning', and leaves the      *)
(* editor state unchanged.                                                 *)
(***************************************************************************)
C18_RefusesWithoutImage ==
  [][(~isImageLoaded /\ (PE_computeFFT \/ FA_computeFFT))
       => /\ Len(notes') = 1 /\ notes'[1][2] = "warning"
          /\ windows' = windows
          /\ UNCHANGED <<variant, file, uploading, isImageLoaded, bgCanvas, call>>]_vars

\* reached: computeFFT has refused, with no image loaded and no window open
C18_Witness ==
  /\ ~isImageLoaded /\ windows = <<>>
  /\ notes = <<Note("Please load an image first.", "warning")>>

\* the notifications ns of one invocation hold a note of the type
HasNote(ns, type) == \E i \in 1..Len(ns) : ns[i][2] = type

(***************************************************************************)
(* C19: when the presentation window cannot be opened, the exception does  *)
(* not leave computeFFT: the invocation ends with an 'error' notification, *)
(* reports no 'success', starts the computation once only (no retry), opens*)
(* no window, and leaves the image state unchanged.                        *)
(***************************************************************************)
C19_SurfaceFailureReported ==
  [][(/\ isImageLoaded
      /\ \/ PE_computeFFT /\ TryComputeFFT("PhotoEditor", FALSE)
         \/ FA_computeFFT /\ TryComputeFFT("FFTAnalyzer", FALSE))
       => /\ Len(notes') > 0 /\ notes'[Len(notes')][2] = "error"
          /\ ~HasNote(notes', "success")
          /\ Cardinality({i \in 1..Len(notes') : notes'[i][1] = "Computing FFT..."}) = 1
          /\ windows' = windows
          /\ UNCHANGED <<variant, file, uploading, isImageLoaded, bgCanvas, call>>]_vars

\* reached: an image is loaded and computeFFT has ended in the catch block
C19_Witness ==
  /\ isImageLoaded /\ windows = <<>>
  /\ notes = <<Note("Computing FFT...", "info"), Note("Failed to compute FFT.", "error")>>

(***************************************************************************)
(* Function-level specification of the pipeline on two rasters that differ *)
(* only in alpha: Init draws the implementation, the extent, the colours   *)
(* and the two alpha planes; the actions run computeFFT's stages and the   *)
(* load handler's loops on each raster.                                    *)
(***************************************************************************)
\* the extents <<width, height>> of the rasters
RasterShapes == {<<1, 1>>, <<2, 1>>}

\* the values of the R, G and B bytes, and of the alpha byte
ChannelSamples == {0, 255}

AlphaSamples == {0, 128, 255}

\* the raster of the colours rgb with the alpha plane alpha
RasterOf(rgb, alpha) ==
  [i \in 1..Len(rgb) |-> <<rgb[i][1], rgb[i][2], rgb[i][3], alpha[i]>>]

RasterPairCall(impl, shape, rgb, alphaA, alphaB) ==
  [fn |-> "pipeline pair", impl |-> impl,
   a |-> Canvas(shape[1], shape[2], RasterOf(rgb, alphaA)),
   b |-> Canvas(shape[1], shape[2], RasterOf(rgb, alphaB)), done |-> FALSE]

InitRasterPair ==
  /\ InitEditor("modular", NoCanvas)
  /\ call \in UNION { { RasterPairCall(impl, shape, rgb, alphaA, alphaB) :
                          impl \in {"FFTAnalyzer", "PhotoEditor"},
                          rgb \in [1..(shape[1] * shape[2])
                                     -> ChannelSamples \X ChannelSamples \X ChannelSamples],
                          alphaA \in [1..(shape[1] * shape[2]) -> AlphaSamples],
                          alphaB \in [1..(shape[1] * shape[2]) -> AlphaSamples] }
                      : shape \in RasterShapes }

\* the buffer the load handler draws for the canvas
Pipeline(impl, canvas) ==
  Bind(Analysis(impl, canvas), LAMBDA analysis :
  Visualization(Intensities(impl, Window(impl, analysis, canvas.data))))

Call_FA_pipeline_pair ==
  /\ call.fn = "pipeline pair" /\ call.impl = "FFTAnalyzer" /\ ~call.done
  /\ call' = [fn |-> "pipeline pair", impl |-> call.impl, a |-> call.a, b |-> call.b,
              done |-> TRUE,
              grayA |-> Grayscale(call.a.data), grayB |-> Grayscale(call.b.data),
              bufferA |-> Pipeline("FFTAnalyzer", call.a),
              bufferB |-> Pipeline("FFTAnalyzer", call.b)]
  /\ UNCHANGED editor

Call_PE_pipeline_pair ==
  /\ call.fn = "pipeline pair" /\ call.impl = "PhotoEditor" /\ ~call.done
  /\ call' = [fn |-> "pipeline pair", impl |-> call.impl, a |-> call.a, b |-> call.b,
              done |-> TRUE,
              grayA |-> Grayscale(call.a.data), grayB |-> Grayscale(call.b.data),
              bufferA |-> Pipeline("PhotoEditor", call.a),
              bufferB |-> Pipeline("PhotoEditor", call.b)]
  /\ UNCHANGED editor

NextRasterPair == Call_FA_pipeline_pair \/ Call_PE_pipeline_pair

SpecRasterPair == InitRasterPair /\ [][NextRasterPair]_vars

\* the pipeline has run on both rasters
RasterPairDone == call.fn = "pipeline pair" /\ call.done

(***************************************************************************)
(* C17: grayscale conversion maps each pixel to                            *)
(* (0.299*R + 0.587*G + 0.114*B)/255, which lies in [0,1]; (255,0,0) maps  *)
(* to 0.299, (255,255,255) to 1.0 and (0,0,0) to 0.0; two rasters that     *)
(* differ only in alpha give the same grayscale field and the same         *)
(* visualization buffer.                                                   *)
(***************************************************************************)
C17_GrayscaleIgnoresAlpha ==
  RasterPairDone
    => /\ \A i \in 1..Len(call.grayA) :
            LET p == call.a.data[i]
                gray == call.grayA[i]
            IN /\ gray[2] = 0 /\ gray[3] = 0
               /\ gray[1] >= 0 /\ gray[1] <= 1000
               /\ (p[1] = 255 /\ p[2] = 0 /\ p[3] = 0) => gray[1] = 299
               /\ (p[1] = 255 /\ p[2] = 255 /\ p[3] = 255) => gray[1] = 1000
               /\ (p[1] = 0 /\ p[2] = 0 /\ p[3] = 0) => gray[1] = 0
       /\ call.grayA = call.grayB
       /\ call.bufferA = call.bufferB

\* reached: FFTAnalyzer's pipeline has run on two 2 x 1 rasters of a red and
\* a white pixel with different alpha planes, and drawn a bright pixel
C17_Witness ==
  /\ RasterPairDone /\ call.impl = "FFTAnalyzer"
  /\ call.a.width = 2 /\ call.a.data # call.b.data
  /\ call.a.data[1] = <<255, 0, 0, 0>> /\ call.a.data[2] = <<255, 255, 255, 128>>
  /\ \E i \in 1..2 : call.bufferA[i][1] = 255

(***************************************************************************)
(* Per-channel colour scaling: handleColorAdjustment, applyColorAdjustments*)
(* (app.js) and ColorAdjustments.applyToImageData.  The percentage s and   *)
(* the byte v are integers; s / 100 and v * rScale are IEEE doubles, and   *)
(* the operators below compute their roundings on integers.                *)
(***************************************************************************)
\* the slider positions: multiples of SliderStep, and the default 100
SliderStep == 29

SliderSteps == 5

DefaultAdjustment == 100

SliderValues == {k * SliderStep : k \in 0..SliderSteps} \cup {DefaultAdjustment}

Min(a, b) == IF a <= b THEN a ELSE b

\* floor(log2(n / d)) for n >= 1: the binary exponent of the quotient
RECURSIVE ExponentUp(_, _)
ExponentUp(n, d) == IF n >= 2 * d THEN 1 + ExponentUp(n, 2 * d) ELSE 0

RECURSIVE ExponentDown(_, _)
ExponentDown(n, d) == IF n < d THEN ExponentDown(2 * n, d) - 1 ELSE 0

Exponent(n, d) == IF n >= d THEN ExponentUp(n, d) ELSE ExponentDown(n, d)

\* (s * 2^k) mod 100: what s / 100 leaves beyond its 53-bit significand
RECURSIVE DoubledRemainder(_, _)
DoubledRemainder(r, k) ==
  IF k = 0 \/ r = 0 THEN r ELSE DoubledRemainder((2 * r) % 100, k - 1)

ScaleRemainder(s, k) == DoubledRemainder(s % 100, k)

\* the double s / 100 is smaller than the quotient: the significand was
\* rounded down (to nearest)
ScaleBelow(s) ==
  LET rem == ScaleRemainder(s, 52 - Exponent(s, 100))
  IN rem > 0 /\ rem < 50

\* v * (s / 100), whose exact value is N + 1/2, is a double smaller than
\* N + 1/2: the scale is below the quotient by more than half the spacing of
\* the doubles under N + 1/2
ProductBelowHalf(v, s, N) ==
  LET j == Exponent(s, 100)
      jp == IF N = 0 THEN -2 ELSE Exponent(N, 1)
      rem == ScaleRemainder(s, 52 - j)
  IN /\ ScaleBelow(s)
     /\ IF jp >= j THEN v * rem > 50 * Pow2(jp - j)
                   ELSE v * rem * Pow2(j - jp) > 50

\* Math.round of the quotient p / 100: halves go up
RoundHalfUp(p) == (2 * p + 100) \div 200

\* Math.round(v * rScale), rScale = s / 100
RoundScaled(v, s) ==
  IF s > 0 /\ (v * s) % 100 = 50 /\ ProductBelowHalf(v, s, (v * s) \div 100)
  THEN (v * s) \div 100
  ELSE RoundHalfUp(v * s)

\* Math.min(255, Math.max(0, Math.round(v * rScale)))
ScaleChannel(v, s) == Min(255, Max(0, RoundScaled(v, s)))

\* the loop over adjustedData.data
applyToImageData(data, adjustments) ==
  [i \in 1..Len(data) |->
     <<ScaleChannel(data[i][1], adjustments.red),
       ScaleChannel(data[i][2], adjustments.green),
       ScaleChannel(data[i][3], adjustments.blue),
       data[i][4]>>]

\* a colour byte stored premultiplied by alpha and read back
Premultiplied(c, a) ==
  IF a = 0 THEN 0 ELSE (((c * a + 127) \div 255) * 255 + a \div 2) \div a

\* what getImageData may return for the pixels putImageData stored: the
\* pixels themselves, or their round trip through premultiplied storage
getImageData(data) ==
  {data,
   [i \in 1..Len(data) |->
      <<Premultiplied(data[i][1], data[i][4]), Premultiplied(data[i][2], data[i][4]),
        Premultiplied(data[i][3], data[i][4]), data[i][4]>>]}

\* the pixels of the loaded images
OriginalImages ==
  {<<<<50, 25, 255, 255>>>>, <<<<0, 90, 170, 128>>>>, <<<<255, 1, 128, 0>>>>,
   <<<<50, 50, 50, 255>>, <<200, 100, 45, 255>>>>}

ColorCall(impl, original) ==
  [fn |-> "color", impl |-> impl, originalImageData |-> original,
   adjustments |-> [red |-> DefaultAdjustment, green |-> DefaultAdjustment,
                    blue |-> DefaultAdjustment],
   adjustedData |-> original, currentImageData |-> original]

InitColor ==
  /\ InitEditor("modular", NoCanvas)
  /\ call \in {ColorCall(impl, original) :
                 impl \in {"ColorAdjustments", "PhotoEditor"},
                 original \in OriginalImages}

\* setAdjustment / the assignment to state.colorAdjustments[color], then
\* applyColorAdjustments
ApplyAdjustment(color, value) ==
  LET adjustments == [call.adjustments EXCEPT ![color] = value]
      adjustedData == applyToImageData(call.originalImageData, adjustments)
  IN /\ \E current \in getImageData(adjustedData) :
          call' = [call EXCEPT !.adjustments = adjustments,
                               !.adjustedData = adjustedData,
                               !.currentImageData = current]
     /\ UNCHANGED editor

\* handleColorAdjustment of part_000, through ColorAdjustments
CA_handleColorAdjustment ==
  /\ call.fn = "color" /\ call.impl = "ColorAdjustments"
  /\ \E color \in {"red", "green", "blue"}, value \in SliderValues :
       ApplyAdjustment(color, value)

\* handleColorAdjustment of app.js
PE_handleColorAdjustment ==
  /\ call.fn = "color" /\ call.impl = "PhotoEditor"
  /\ \E color \in {"red", "green", "blue"}, value \in SliderValues :
       ApplyAdjustment(color, value)

NextColor == CA_handleColorAdjustment \/ PE_handleColorAdjustment

SpecColor == InitColor /\ [][NextColor]_vars

\* min(255, max(0, round(v * s / 100))) of the quotient itself
ExactScaled(v, s) == Min(255, Max(0, RoundHalfUp(v * s)))

(***************************************************************************)
(* C20: colour scaling writes, for every pixel and every integer slider    *)
(* percentage s, R, G and B equal to min(255, max(0, round(v*s/100))) of   *)
(* the baseline value v, an integer in [0,255], and leaves the alpha byte  *)
(* of every pixel unchanged.                                               *)
(***************************************************************************)
C20_ScaledRoundedClamped ==
  call.fn = "color"
    => \A i \in 1..Len(call.adjustedData) :
         LET v == call.originalImageData[i]
             w == call.adjustedData[i]
         IN /\ w[1] = ExactScaled(v[1], call.adjustments.red)
            /\ w[2] = ExactScaled(v[2], call.adjustments.green)
            /\ w[3] = ExactScaled(v[3], call.adjustments.blue)
            /\ \A c \in 1..3 : w[c] \in 0..255
            /\ w[4] = v[4]

(***************************************************************************)
(* The bit-reverse permutation of fft1D, one loop iteration per step: Init *)
(* draws the implementation, a power-of-two working length and the arrays; *)
(* each step is one pass of the body of  for (let i = 1, j = 0; i < len;   *)
(* i++), and the swaps made are recorded in order.                         *)
(***************************************************************************)
\* the working lengths are 2^1 .. 2^MaxBits
MaxBits == 3

\* the arrays hold base + k and k * scale at index k
MaxBase == 3

MaxScale == 3

BitReverseCall(impl, bits, base, scale) ==
  [fn |-> "bit-reverse", impl |-> impl, bits |-> bits, len |-> Pow2(bits), i |-> 1, j |-> 0,
   input |-> Work([k \in 1..Pow2(bits) |-> Num(base + k - 1)],
                  [k \in 1..Pow2(bits) |-> Num((k - 1) * scale)], {}),
   w |-> Work([k \in 1..Pow2(bits) |-> Num(base + k - 1)],
              [k \in 1..Pow2(bits) |-> Num((k - 1) * scale)], {}),
   swaps |-> <<>>]

InitBitReverse ==
  /\ InitEditor("modular", NoCanvas)
  /\ call \in {BitReverseCall(impl, bits, base, scale) :
                 impl \in {"FFTAnalyzer", "PhotoEditor"}, bits \in 1..MaxBits,
                 base \in 0..MaxBase, scale \in 1..MaxScale}

\* one pass of the loop body: advance j, swap when i < j, i++
BitReverseIteration ==
  LET j2 == BitReverseCarry(call.j, ShiftRight1(call.len))
  IN /\ call.fn = "bit-reverse" /\ call.i < call.len
     /\ call' = [call EXCEPT !.i = call.i + 1,
                             !.j = j2,
                             !.w = IF call.i < j2 THEN Swap(call.w, call.i, j2) ELSE call.w,
                             !.swaps = IF call.i < j2 THEN Append(call.swaps, <<call.i, j2>>)
                                       ELSE call.swaps]
     /\ UNCHANGED editor

FA_BitReverseIteration == call.impl = "FFTAnalyzer" /\ BitReverseIteration

PE_BitReverseIteration == call.impl = "PhotoEditor" /\ BitReverseIteration

NextBitReverse == FA_BitReverseIteration \/ PE_BitReverseIteration

SpecBitReverse == InitBitReverse /\ [][NextBitReverse]_vars

\* the loop has ended
BitReverseDone == call.fn = "bit-reverse" /\ call.i >= call.len

\* the index whose bits-bit binary numeral is that of i read backwards
RECURSIVE bitrev(_, _)
bitrev(i, bits) ==
  IF bits = 0 THEN 0 ELSE (i % 2) * Pow2(bits - 1) + bitrev(i \div 2, bits - 1)

(***************************************************************************)
(* C21: for a power-of-two working length P the bit-reversal loop leaves   *)
(* the element originally at index i at index bitrev(i), for every i in    *)
(* 0..P-1, and swaps each pair {i, bitrev(i)} with i # bitrev(i) exactly   *)
(* once, only as (i, j) with i < j, in the real and the imaginary array    *)
(* alike.                                                                  *)
(***************************************************************************)
C21_BitReversalPermutes ==
  BitReverseDone
    => /\ \A i \in 0..(call.len - 1) :
            /\ Get(call.w.real, bitrev(i, call.bits)) = Get(call.input.real, i)
            /\ Get(call.w.imag, bitrev(i, call.bits)) = Get(call.input.imag, i)
       /\ \A k \in 1..Len(call.swaps) :
            /\ call.swaps[k][1] < call.swaps[k][2]
            /\ call.swaps[k][2] = bitrev(call.swaps[k][1], call.bits)
       /\ \A i \in 0..(call.len - 1) :
            Cardinality({k \in 1..Len(call.swaps) : i \in {call.swaps[k][1], call.swaps[k][2]}})
              = IF i = bitrev(i, call.bits) THEN 0 ELSE 1
       /\ call.w.oob = {}
       /\ call.w = BitReversePermutation(call.input, call.len)

\* reached: the loop has ended on 8 elements, having swapped 1 with 4 and 3
\* with 6
C21_Witness ==
  /\ BitReverseDone /\ call.len = 8
  /\ call.swaps = <<<<1, 4>>, <<3, 6>>>>
  /\ call.w.real # call.input.real /\ call.w.imag # call.input.imag

(***************************************************************************)
(* Two invocations of fft2D on the same grayscale field, over a heap of    *)
(* arrays: heap[a] is the array at address a, and an invocation holds the  *)
(* addresses of the arrays it works on.  A step is the allocation and copy *)
(* loop, one pass of the row loop, or one pass of the column loop, of one  *)
(* invocation; the steps of the two invocations run in any order, the      *)
(* order of two calls made one after the other among them.                 *)
(***************************************************************************)
\* the fields are up to MaxSharedDim wide and high
MaxSharedDim == 2

\* the invocations
Invocations == {1, 2}

\* the address of the grayscale field handed to both invocations
DataAddress == 1

\* result.real aliased to the field passed in, only result.imag allocated
AllocateResult_Aliased(heap, n) ==
  [heap |-> Append(heap, Zeros(n)), real |-> DataAddress, imag |-> Len(heap) + 1]

\* result = { real: new Float32Array(width * height), imag: new Float32Array(width * height) }
AllocateResult(heap, n) ==
  [heap |-> heap \o <<Zeros(n), Zeros(n)>>, real |-> Len(heap) + 1, imag |-> Len(heap) + 2]

NotStarted == [pc |-> "new", k |-> 0, real |-> 0, imag |-> 0]

SharedCall(impl, width, height, data) ==
  [fn |-> "fft2D shared", impl |-> impl, width |-> width, height |-> height,
   data |-> data, heap |-> <<data>>, inv |-> [n \in Invocations |-> NotStarted]]

InitShared ==
  /\ InitEditor("modular", NoCanvas)
  /\ call \in UNION { { SharedCall(impl, d[1], d[2], data) :
                          impl \in {"FFTAnalyzer", "PhotoEditor"},
                          data \in SparseFields(d[1] * d[2]) }
                      : d \in (1..MaxSharedDim) \X (1..MaxSharedDim) }

\* the allocation of result and the loop that copies the input into it
Fft2DBegin(n) ==
  /\ call.fn = "fft2D shared" /\ call.inv[n].pc = "new"
  /\ LET size == call.width * call.height
         a == AllocateResult(call.heap, size)
         copied == [i \in 1..size |-> Get(a.heap[DataAddress], i - 1)]
     IN call' = [call EXCEPT
                   !.heap = [[a.heap EXCEPT ![a.real] = copied] EXCEPT ![a.imag] = Zeros(size)],
                   !.inv[n] = [pc |-> "rows", k |-> 0, real |-> a.real, imag |-> a.imag]]
  /\ UNCHANGED editor

\* one pass of the loop over the rows
Fft2DRow(n) ==
  /\ call.fn = "fft2D shared" /\ call.inv[n].pc = "rows"
  /\ LET me == call.inv[n]
         y == me.k
         rowFFT == fft1D(call.impl, ExtractRow(call.heap[me.real], call.width, y),
                         ExtractRow(call.heap[me.imag], call.width, y))
         stored == [call.heap EXCEPT
                      ![me.real] = StoreRow(call.heap[me.real], rowFFT.real, call.width, y)]
     IN call' = [call EXCEPT
                   !.heap = [stored EXCEPT
                               ![me.imag] = StoreRow(stored[me.imag], rowFFT.imag, call.width, y)],
                   !.inv[n] = IF y + 1 < call.height THEN [me EXCEPT !.k = y + 1]
                              ELSE [me EXCEPT !.pc = "columns", !.k = 0]]
  /\ UNCHANGED editor

\* one pass of the loop over the columns
Fft2DColumn(n) ==
  /\ call.fn = "fft2D shared" /\ call.inv[n].pc = "columns"
  /\ LET me == call.inv[n]
         x == me.k
         colFFT == fft1D(call.impl,
                         ExtractColumn(call.heap[me.real], call.width, call.height, x),
                         ExtractColumn(call.heap[me.imag], call.width, call.height, x))
         stored == [call.heap EXCEPT
                      ![me.real] = StoreColumn(call.heap[me.real], colFFT.real, call.width, x)]
     IN call' = [call EXCEPT
                   !.heap = [stored EXCEPT
                               ![me.imag] = StoreColumn(stored[me.imag], colFFT.imag,
                                                        call.width, x)],
                   !.inv[n] = IF x + 1 < call.width THEN [me EXCEPT !.k = x + 1]
                              ELSE [me EXCEPT !.pc = "returned", !.k = 0]]
  /\ UNCHANGED editor

NextShared ==
  \/ \E n \in Invocations : Fft2DBegin(n)
  \/ \E n \in Invocations : Fft2DRow(n)
  \/ \E n \in Invocations : Fft2DColumn(n)

SpecShared == InitShared /\ [][NextShared]_vars

\* the addresses invocation n works on
ArraysOf(n) ==
  IF call.inv[n].pc = "new" THEN {} ELSE {call.inv[n].real, call.inv[n].imag}

(***************************************************************************)
(* C22: fft2D works only on arrays it allocates itself: the grayscale      *)
(* field passed in holds the same values throughout, the real and          *)
(* imaginary arrays have length exactly W*H, two invocations share no      *)
(* array, and the result of an invocation is that of fft2D run alone,      *)
(* whatever the other invocation did before or between its steps.          *)
(***************************************************************************)
C22_Fft2DOwnsItsArrays ==
  call.fn = "fft2D shared"
    => /\ call.heap[DataAddress] = call.data
       /\ \A n \in Invocations :
            /\ DataAddress \notin ArraysOf(n)
            /\ \A a \in ArraysOf(n) : Len(call.heap[a]) = call.width * call.height
            /\ \A m \in Invocations \ {n} : ArraysOf(n) \cap ArraysOf(m) = {}
            /\ call.inv[n].pc = "returned"
                 => Field(call.heap[call.inv[n].real], call.heap[call.inv[n].imag])
                      = fft2D(call.impl, call.data, call.width, call.height)

\* reached: both invocations have returned the transform of a 2 x 2 field
\* that differs from the field, which still holds its values
C22_Witness ==
  /\ call.fn = "fft2D shared" /\ call.width = 2 /\ call.height = 2
  /\ \A n \in Invocations : call.inv[n].pc = "returned"
  /\ call.heap[call.inv[1].real] # call.data
  /\ call.heap[call.inv[1].real] = call.heap[call.inv[2].real]
  /\ call.inv[1].real # call.inv[2].real

(***************************************************************************)
(* The index arithmetic of the pixel loops of visualizeFFT, one            *)
(* destination pixel per step: Init draws the implementation and the       *)
(* extent, each step computes the source index i of the next destination   *)
(* pixel originalI and records twice its value.                            *)
(***************************************************************************)
\* the extents are up to MaxShiftDim wide and high
MaxShiftDim == 4

ShiftCall(impl, width, height) ==
  [fn |-> "shift", impl |-> impl, width |-> width, height |-> height,
   originalI |-> 0, twice |-> <<>>]

InitShift ==
  /\ InitEditor("modular", NoCanvas)
  /\ call \in {ShiftCall(impl, width, height) :
                 impl \in {"FFTAnalyzer", "PhotoEditor"},
                 width \in 1..MaxShiftDim, height \in 1..MaxShiftDim}

\* FFTAnalyzer.visualizeFFT: the index computed for the next pixel
FA_ShiftPixel ==
  /\ call.fn = "shift" /\ call.impl = "FFTAnalyzer"
  /\ call.originalI < call.width * call.height
  /\ call' = [call EXCEPT
                !.originalI = call.originalI + 1,
                !.twice = Append(call.twice,
                                 2 * FA_ShiftedIndex(call.width, call.height,
                                                     call.originalI % call.width,
                                                     call.originalI \div call.width))]
  /\ UNCHANGED editor

\* PhotoEditor.visualizeFFT: the index computed for the next pixel
PE_ShiftPixel ==
  /\ call.fn = "shift" /\ call.impl = "PhotoEditor"
  /\ call.originalI < call.width * call.height
  /\ call' = [call EXCEPT
                !.originalI = call.originalI + 1,
                !.twice = Append(call.twice,
                                 PE_TwiceShiftedIndex(call.width, call.height,
                                                      call.originalI % call.width,
                                                      call.originalI \div call.width))]
  /\ UNCHANGED editor

NextShift == FA_ShiftPixel \/ PE_ShiftPixel

SpecShift == InitShift /\ [][NextShift]_vars

(***************************************************************************)
(* C23: in every visualizeFFT and for every W >= 1 and H >= 1, the source  *)
(* index computed for each destination pixel is an integer in [0, W*H),    *)
(* and no two destination pixels have the same source index, so that the   *)
(* map is a bijection once the loops have ended.                           *)
(***************************************************************************)
C23_ShiftIsBijection ==
  call.fn = "shift"
    => /\ \A k \in 1..Len(call.twice) :
            /\ call.twice[k] % 2 = 0
            /\ call.twice[k] \div 2 \in 0..(call.width * call.height - 1)
       /\ \A k, l \in 1..Len(call.twice) : call.twice[k] = call.twice[l] => k = l

(***************************************************************************)
(* An editing session: image load, colour sliders, rotation, pointer       *)
(* selection, crop and reset, in both editors.  variant, isImageLoaded,    *)
(* bgCanvas and notes are the variables of the editor; the rest of the     *)
(* editor's state is the record call:                                      *)
(*   originalImage       state.originalImage: the decoded image, named by  *)
(*                       its extent (Null while null)                      *)
(*   originalImageData   state.originalImageData                           *)
(*   colorAdjustments    state.colorAdjustments / ColorAdjustments         *)
(*   isCropping, cropStart, cropEnd   the selection (state / CropTool)     *)
(*   canvas              width and height of the display canvas            *)
(*   validReported       the handler that ran last was handleCropEnd and   *)
(*                       it found isValidCropArea                          *)
(*   steps               the number of handlers that have run              *)
(*   edits               the rotations and crops made since the image was  *)
(*                       drawn: a record of the session, no state of the   *)
(*                       editor                                            *)
(* state.currentImageData, which the handlers write with what getImageData *)
(* returns for the background canvas and never read, is left out.          *)
(* A file upload is one step: between handleFileUpload's await and         *)
(* img.onload nothing but the status message has changed.  Rotation by a   *)
(* quarter turn maps pixels to pixels.                                     *)
(***************************************************************************)
\* the extent of the image files
EditWidth == 12

EditHeight == 11

\* a session runs at most MaxSteps handlers
MaxSteps == 5

\* isValidCropArea: both sides above MinSelection; applyCrop: no side below MinCrop
MinSelection == 5

MinCrop == 10

Null == <<>>

\* the image whose pixel (x, y) is (100 + 10 x, 100 + 10 y, 200, 255)
Gradient(width, height) ==
  Canvas(width, height,
         [i \in 1..(width * height) |->
            <<100 + 10 * ((i - 1) % width), 100 + 10 * ((i - 1) \div width), 200, 255>>])

\* the image files, named by their extent, and what drawImage draws of them
EditFiles == {[width |-> EditWidth, height |-> EditHeight]}

Decoded(img) == Gradient(img.width, img.height)

\* the sliders moved in a session, and the positions they are moved to
EditSliders == {"red", "green"}

EditSliderValues == {50, DefaultAdjustment}

\* getEventPosition for pointer positions inside the displayed canvas: points
\* (x, y) with 0 <= x <= bgCanvas.width and 0 <= y <= bgCanvas.height
PointerPositions ==
  {q \in {<<1, 1>>, <<7, 7>>, <<bgCanvas.width, bgCanvas.height>>} :
     q[1] <= bgCanvas.width /\ q[2] <= bgCanvas.height}

\* the pixel of the canvas at (x, y); transparent black outside the canvas
PixelAt(canvas, x, y) ==
  IF x >= 0 /\ x < canvas.width /\ y >= 0 /\ y < canvas.height
  THEN canvas.data[y * canvas.width + x + 1]
  ELSE <<0, 0, 0, 0>>

\* the canvas drawn turned by Math.PI / 2 onto a canvas of swapped extent
Rotated(canvas) ==
  Canvas(canvas.height, canvas.width,
         [i \in 1..(canvas.width * canvas.height) |->
            PixelAt(canvas, (i - 1) \div canvas.height,
                    canvas.height - 1 - ((i - 1) % canvas.height))])

\* bgCtx.getImageData(x, y, width, height)
ExtractRegion(canvas, x, y, width, height) ==
  Canvas(width, height,
         [i \in 1..(width * height) |->
            PixelAt(canvas, x + ((i - 1) % width), y + ((i - 1) \div width))])

Abs(n) == IF n < 0 THEN 0 - n ELSE n

isValidCropArea(cropStart, cropEnd) ==
  /\ cropStart # Null /\ cropEnd # Null
  /\ Abs(cropEnd[1] - cropStart[1]) > MinSelection
  /\ Abs(cropEnd[2] - cropStart[2]) > MinSelection

getCropDimensions(cropStart, cropEnd) ==
  [x |-> Min(cropStart[1], cropEnd[1]), y |-> Min(cropStart[2], cropEnd[2]),
   width |-> Abs(cropEnd[1] - cropStart[1]), height |-> Abs(cropEnd[2] - cropStart[2])]

DefaultAdjustments ==
  [red |-> DefaultAdjustment, green |-> DefaultAdjustment, blue |-> DefaultAdjustment]

EditState ==
  [fn |-> "edit", originalImage |-> Null, originalImageData |-> NoCanvas,
   colorAdjustments |-> DefaultAdjustments,
   isCropping |-> FALSE, cropStart |-> Null, cropEnd |-> Null,
   canvas |-> <<0, 0>>, validReported |-> FALSE, steps |-> 0, edits |-> <<>>]

InitEdit ==
  /\ variant \in {"monolith", "modular"}
  /\ file = NoCanvas
  /\ uploading = FALSE
  /\ isImageLoaded = FALSE
  /\ bgCanvas = NoCanvas
  /\ notes = <<>>
  /\ windows = <<>>
  /\ call = EditState

\* a handler runs: the step is counted, and what handleCropEnd reported is no
\* longer the latest thing that happened
Step(state) == [state EXCEPT !.steps = call.steps + 1, !.validReported = FALSE]

CanStep == call.fn = "edit" /\ call.steps < MaxSteps

\* processLoadedImage, with the slider reset that follows it
processLoadedImage(img) ==
  /\ bgCanvas' = Decoded(img)
  /\ call' = Step([call EXCEPT !.originalImage = img,
                               !.originalImageData = Decoded(img),
                               !.canvas = <<img.width, img.height>>,
                               !.colorAdjustments = DefaultAdjustments,
                               !.edits = <<>>])

\* handleFileUpload with the img.onload that completes it
loadImage ==
  /\ CanStep
  /\ \E img \in EditFiles : processLoadedImage(img)
  /\ isImageLoaded' = TRUE
  /\ notes' = <<Note("Loading image...", "info"), Note("Image loaded successfully!", "success")>>
  /\ UNCHANGED <<variant, file, uploading, windows>>

\* applyColorAdjustments on the image data original, after the other
\* changes of the handler have made the editor's record state
applyColorAdjustments(original, state) ==
  /\ bgCanvas' = Canvas(original.width, original.height,
                        applyToImageData(original.data, state.colorAdjustments))
  /\ call' = Step(state)

handleColorAdjustment ==
  /\ CanStep
  /\ \E color \in EditSliders, value \in EditSliderValues :
       LET state == [call EXCEPT !.colorAdjustments[color] = value]
       IN IF call.originalImageData = NoCanvas
          THEN call' = Step(state) /\ bgCanvas' = bgCanvas
          ELSE applyColorAdjustments(call.originalImageData, state)
  /\ UNCHANGED <<variant, file, uploading, isImageLoaded, notes, windows>>

rotateImage ==
  /\ CanStep
  /\ IF ~isImageLoaded
     THEN /\ notes' = <<Note("Please load an image first.", "warning")>>
          /\ call' = Step(call)
          /\ bgCanvas' = bgCanvas
     ELSE /\ LET turned == Rotated(bgCanvas)
             IN applyColorAdjustments(turned,
                                      [call EXCEPT !.originalImageData = turned,
                                                   !.canvas = <<turned.width, turned.height>>,
                                                   !.edits = Append(call.edits, <<"rotate">>)])
          /\ notes' = <<Note("Image rotated successfully!", "success")>>
  /\ UNCHANGED <<variant, file, uploading, isImageLoaded, windows>>

\* PhotoEditor.handleCropStart returns when no image is loaded; CropTool's
\* has no such check
handleCropStart ==
  /\ CanStep
  /\ variant = "monolith" => isImageLoaded
  /\ \E q \in PointerPositions :
       call' = Step([call EXCEPT !.isCropping = TRUE, !.cropStart = q])
  /\ UNCHANGED <<variant, file, uploading, isImageLoaded, bgCanvas, notes, windows>>

handleCropMove ==
  /\ CanStep
  /\ call.isCropping /\ call.cropStart # Null
  /\ \E q \in PointerPositions : call' = Step([call EXCEPT !.cropEnd = q])
  /\ UNCHANGED <<variant, file, uploading, isImageLoaded, bgCanvas, notes, windows>>

handleCropEnd ==
  /\ CanStep
  /\ call.isCropping
  /\ \E q \in PointerPositions :
       call' = [Step([call EXCEPT !.isCropping = FALSE, !.cropEnd = q])
                  EXCEPT !.validReported = isValidCropArea(call.cropStart, q)]
  /\ UNCHANGED <<variant, file, uploading, isImageLoaded, bgCanvas, notes, windows>>

\* the notification of a refused crop: a warning in app.js, in part_000 the
\* message of the error CropTool.applyCrop threw
Refusal(message) ==
  IF variant = "monolith" THEN <<Note(message, "warning")>> ELSE <<Note(message, "error")>>

\* the crop with the selection left as it was
Crop_SelectionKept(d) ==
  LET croppedData == ExtractRegion(bgCanvas, d.x, d.y, d.width, d.height)
  IN /\ applyColorAdjustments(croppedData,
                              [call EXCEPT !.originalImageData = croppedData,
                                           !.canvas = <<d.width, d.height>>,
                                           !.edits = Append(call.edits, <<"crop", d>>)])
     /\ notes' = <<Note("Image cropped successfully!", "success")>>

\* the crop itself: extraction, resize, putImageData, selection reset,
\* image data update, applyColorAdjustments
Crop(d) ==
  LET croppedData == ExtractRegion(bgCanvas, d.x, d.y, d.width, d.height)
  IN /\ applyColorAdjustments(croppedData,
                              [call EXCEPT !.cropStart = Null, !.cropEnd = Null,
                                           !.originalImageData = croppedData,
                                           !.canvas = <<d.width, d.height>>,
                                           !.edits = Append(call.edits, <<"crop", d>>)])
     /\ notes' = <<Note("Image cropped successfully!", "success")>>

applyCrop ==
  /\ CanStep
  /\ IF ~isImageLoaded
     THEN /\ notes' = <<Note(IF variant = "monolith" THEN "Please select a crop area first."
                                                      ELSE "Please load an image first.",
                             "warning")>>
          /\ call' = Step(call) /\ bgCanvas' = bgCanvas
     ELSE IF ~isValidCropArea(call.cropStart, call.cropEnd)
     THEN /\ notes' = Refusal("Please select a crop area first.")
          /\ call' = Step(call) /\ bgCanvas' = bgCanvas
     ELSE LET d == getCropDimensions(call.cropStart, call.cropEnd)
          IN IF d.width < MinCrop \/ d.height < MinCrop
             THEN /\ notes' = Refusal("Crop area is too small.")
                  /\ call' = Step(call) /\ bgCanvas' = bgCanvas
             ELSE Crop(d)
  /\ UNCHANGED <<variant, file, uploading, isImageLoaded, windows>>

\* the reset drawn from the image data of the last rotation or crop
resetImage_FromImageData ==
  /\ CanStep
  /\ IF call.originalImage = Null
     THEN /\ notes' = <<Note("No image to reset.", "warning")>>
          /\ call' = Step(call)
          /\ UNCHANGED <<bgCanvas, isImageLoaded>>
     ELSE /\ bgCanvas' = call.originalImageData
          /\ call' = Step([call EXCEPT !.colorAdjustments = DefaultAdjustments,
                                       !.edits = <<>>])
          /\ isImageLoaded' = IF variant = "monolith" THEN TRUE ELSE isImageLoaded
          /\ notes' = <<Note("Image reset to original.", "success")>>
  /\ UNCHANGED <<variant, file, uploading, windows>>

\* PhotoEditor.processLoadedImage of app.js sets isImageLoaded; the resetImage
\* of part_000 leaves it as it is
resetImage ==
  /\ CanStep
  /\ IF call.originalImage = Null
     THEN /\ notes' = <<Note("No image to reset.", "warning")>>
          /\ call' = Step(call)
          /\ UNCHANGED <<bgCanvas, isImageLoaded>>
     ELSE /\ processLoadedImage(call.originalImage)
          /\ isImageLoaded' = IF variant = "monolith" THEN TRUE ELSE isImageLoaded
          /\ notes' = <<Note("Image reset to original.", "success")>>
  /\ UNCHANGED <<variant, file, uploading, windows>>

NextEdit ==
  \/ loadImage
  \/ handleColorAdjustment
  \/ rotateImage
  \/ handleCropStart
  \/ handleCropMove
  \/ handleCropEnd
  \/ applyCrop
  \/ resetImage

SpecEdit == InitEdit /\ [][NextEdit]_vars

\* the image with the rotations and crops edits[k], edits[k + 1], ... made on
\* it, its colours not scaled
RECURSIVE Edited(_, _, _)
Edited(image, edits, k) ==
  IF k > Len(edits) THEN image
  ELSE IF edits[k][1] = "rotate" THEN Edited(Rotated(image), edits, k + 1)
  ELSE Edited(ExtractRegion(image, edits[k][2].x, edits[k][2].y,
                            edits[k][2].width, edits[k][2].height), edits, k + 1)

(***************************************************************************)
(* C24: colour scaling is applied exactly once to the unscaled image,      *)
(* whatever the order of edits: after any sequence of load, slider         *)
(* changes, rotate and crop, every pixel of the background canvas is the   *)
(* corresponding pixel of the loaded image, after the same rotations and   *)
(* crops, scaled once by the current slider percentages.                   *)
(***************************************************************************)
C24_ScaledOnce ==
  (call.fn = "edit" /\ isImageLoaded)
    => Bind(Edited(Decoded(call.originalImage), call.edits, 1), LAMBDA reference :
         /\ bgCanvas.width = reference.width /\ bgCanvas.height = reference.height
         /\ bgCanvas.data = applyToImageData(reference.data, call.colorAdjustments))

\* applyCrop runs and extracts a region: it ends with the success message
CropPerformed ==
  applyCrop /\ notes' = <<Note("Image cropped successfully!", "success")>>

(***************************************************************************)
(* C25: whenever applyCrop extracts a region, the rectangle (x, y, width,  *)
(* height) lies inside the current background canvas: 0 <= x,              *)
(* x + width <= canvas width, 0 <= y, y + height <= canvas height.         *)
(***************************************************************************)
C25_CropInsideCanvas ==
  [][CropPerformed
       => LET d == getCropDimensions(call.cropStart, call.cropEnd)
          IN /\ 0 <= d.x /\ d.x + d.width <= bgCanvas.width
             /\ 0 <= d.y /\ d.y + d.height <= bgCanvas.height]_vars

\* a selection exists whose width and height are both at least 10
SelectionOfTen ==
  /\ call.cropStart # Null /\ call.cropEnd # Null
  /\ Abs(call.cropEnd[1] - call.cropStart[1]) >= 10
  /\ Abs(call.cropEnd[2] - call.cropStart[2]) >= 10

\* the image and the selection are as they were
ImageAndSelectionKept ==
  /\ bgCanvas' = bgCanvas
  /\ call'.canvas = call.canvas
  /\ call'.originalImageData = call.originalImageData
  /\ call'.cropStart = call.cropStart /\ call'.cropEnd = call.cropEnd

(***************************************************************************)
(* C26: applyCrop changes the image only when a selection exists whose     *)
(* width and height are both at least 10; when it rejects (no start or end *)
(* point, a side of at most 5, or a side below 10) the canvas dimensions,  *)
(* the pixel data and the stored selection are unchanged and one warning   *)
(* or error is reported; when it succeeds the background and the display   *)
(* canvas have the selection's width and height and cropStart and cropEnd  *)
(* are null.                                                               *)
(***************************************************************************)
C26_CropOnlyOnSelectionOfTen ==
  [][applyCrop
       => /\ ~ImageAndSelectionKept => SelectionOfTen
          /\ ~SelectionOfTen
               => /\ ImageAndSelectionKept
                  /\ Len(notes') = 1 /\ notes'[1][2] \in {"warning", "error"}
          /\ CropPerformed
               => /\ bgCanvas'.width = Abs(call.cropEnd[1] - call.cropStart[1])
                  /\ bgCanvas'.height = Abs(call.cropEnd[2] - call.cropStart[2])
                  /\ call'.canvas = <<bgCanvas'.width, bgCanvas'.height>>
                  /\ call'.cropStart = Null /\ call'.cropEnd = Null]_vars

\* reached: the region from (1,1) to the far corner of the image has been
\* cropped, the canvases are one less each way and the selection is gone
C26_Witness ==
  /\ call.fn = "edit" /\ isImageLoaded
  /\ notes = <<Note("Image cropped successfully!", "success")>>
  /\ bgCanvas.width = EditWidth - 1 /\ bgCanvas.height = EditHeight - 1
  /\ call.canvas = <<EditWidth - 1, EditHeight - 1>>
  /\ PixelAt(bgCanvas, 0, 0) = <<110, 110, 200, 255>>
  /\ call.cropStart = Null /\ call.cropEnd = Null

(***************************************************************************)
(* C27: whenever handleCropEnd reports the finished selection as a valid   *)
(* crop area, an immediately following applyCrop on a loaded image with    *)
(* that same selection performs the crop rather than rejecting it.         *)
(***************************************************************************)
C27_ReportedValidIsCropped ==
  [][(applyCrop /\ isImageLoaded /\ call.validReported) => CropPerformed]_vars

(***************************************************************************)
(* C30: after any sequence of rotations, crops and slider changes on a     *)
(* loaded image, resetImage restores the background and display canvases   *)
(* to the dimensions and pixels of the originally loaded image, sets the   *)
(* red, green and blue adjustments to 100 and keeps isImageLoaded true;    *)
(* when no image was ever loaded it changes nothing and reports a warning. *)
(***************************************************************************)
C30_ResetRestoresOriginal ==
  [][resetImage
       => IF isImageLoaded
          THEN /\ \E img \in EditFiles :
                    /\ bgCanvas' = Gradient(img.width, img.height)
                    /\ call'.canvas = <<img.width, img.height>>
               /\ \A color \in {"red", "green", "blue"} : call'.colorAdjustments[color] = 100
               /\ isImageLoaded'
          ELSE /\ bgCanvas' = bgCanvas /\ call'.canvas = call.canvas
               /\ call'.originalImage = call.originalImage
               /\ call'.originalImageData = call.originalImageData
               /\ call'.colorAdjustments = call.colorAdjustments
               /\ call'.cropStart = call.cropStart /\ call'.cropEnd = call.cropEnd
               /\ ~isImageLoaded'
               /\ notes' = <<Note("No image to reset.", "warning")>>]_vars

\* reached: a reset after three handlers on the loaded image has put back
\* the image and the sliders
C30_Witness ==
  /\ call.fn = "edit" /\ isImageLoaded /\ call.steps = MaxSteps
  /\ notes = <<Note("Image reset to original.", "success")>>
  /\ bgCanvas = Gradient(EditWidth, EditHeight)
  /\ call.canvas = <<EditWidth, EditHeight>>
  /\ call.colorAdjustments = DefaultAdjustments

(***************************************************************************)
(* The status line: showStatusMessage writes the message and starts a      *)
(* timer of 3000 ms whose callback clears the line if it still holds the   *)
(* text of its own call.  Time is kept as the milliseconds left on each    *)
(* timer; the record call holds                                            *)
(*   textContent, className   the status element                           *)
(*   shown       the milliseconds the present text has been displayed,     *)
(*               counted up to StatusDelay                                 *)
(*   timers      the pending timers, oldest first: the message of the      *)
(*               call and the milliseconds left                            *)
(*   calls       the number of showStatusMessage calls made                *)
(***************************************************************************)
StatusDelay == 3000

MaxCalls == 3

\* the steps by which time advances between events
StatusAdvances == {1000, 2000}

StatusNotes ==
  {Note("Image rotated successfully!", "success"), Note("Please load an image first.", "warning"),
   Note("Loading image...", "info")}

StatusCall ==
  [fn |-> "status", textContent |-> "", className |-> "status-message",
   shown |-> 0, timers |-> <<>>, calls |-> 0]

InitStatus ==
  /\ variant \in {"monolith", "modular"}
  /\ file = NoCanvas
  /\ uploading = FALSE
  /\ isImageLoaded = FALSE
  /\ bgCanvas = NoCanvas
  /\ notes = <<>>
  /\ windows = <<>>
  /\ call = StatusCall

showStatusMessage ==
  /\ call.fn = "status" /\ call.calls < MaxCalls
  /\ \E note \in StatusNotes :
       call' = [call EXCEPT !.textContent = note[1],
                            !.className = note[2],
                            !.shown = 0,
                            !.timers = Append(call.timers,
                                              [message |-> note[1], left |-> StatusDelay]),
                            !.calls = call.calls + 1]
  /\ UNCHANGED editor

\* the callback of the oldest timer, once its 3000 ms are over
StatusTimeout ==
  /\ call.fn = "status"
  /\ call.timers # <<>> /\ Head(call.timers).left = 0
  /\ call' = IF call.textContent = Head(call.timers).message
             THEN [call EXCEPT !.textContent = "", !.className = "status-message",
                               !.shown = 0, !.timers = Tail(call.timers)]
             ELSE [call EXCEPT !.timers = Tail(call.timers)]
  /\ UNCHANGED editor

\* time passes, no further than the moment the oldest timer is due
StatusElapse ==
  /\ call.fn = "status"
  /\ call.timers # <<>> /\ Head(call.timers).left > 0
  /\ \E d \in StatusAdvances :
       LET step == Min(d, Head(call.timers).left)
       IN call' = [call EXCEPT
                     !.shown = IF call.textContent = "" THEN 0
                               ELSE Min(call.shown + step, StatusDelay),
                     !.timers = [i \in 1..Len(call.timers) |->
                                   [call.timers[i] EXCEPT !.left = call.timers[i].left - step]]]
  /\ UNCHANGED editor

NextStatus ==
  \/ showStatusMessage
  \/ StatusTimeout
  \/ StatusElapse

SpecStatus == InitStatus /\ [][NextStatus]_vars

(***************************************************************************)
(* C28: a status message shown by showStatusMessage stays displayed for 3  *)
(* seconds unless a later showStatusMessage call replaces it: the clearing *)
(* timer of an earlier call never clears the message shown by a later      *)
(* call, including when both calls show the same text.  Whenever the       *)
(* status line is cleared, its text has been displayed for 3000 ms.        *)
(***************************************************************************)
C28_MessageStaysThreeSeconds ==
  [][(call.fn = "status" /\ call.textContent # "" /\ call'.textContent = "")
       => call.shown = StatusDelay]_vars

(***************************************************************************)
(* Window resize.  Both editors register a resize listener built on        *)
(* debounce(func, 250): the function debounce returns restarts a timer of  *)
(* 250 ms on every call, and the timer's callback later runs func, which   *)
(* calls scaleCanvasView.  part_000 registers the function debounce        *)
(* returns; app.js registers an arrow function that calls debounce on      *)
(* every event and drops what it returns.  The record call holds           *)
(*   timeout     the pending timer of the registered debounced function:   *)
(*               empty, or the milliseconds left                           *)
(*   since       the milliseconds since the last resize event, counted up  *)
(*               to DebounceWait                                           *)
(*   scaleCalls  the calls of scaleCanvasView made by the listener         *)
(*   burstCalls  those made since the present burst of events began        *)
(*   unanswered  a resize event has happened and scaleCanvasView has not   *)
(*               been called since                                         *)
(*   resizes     the number of resize events                               *)
(***************************************************************************)
DebounceWait == 250

MaxResizes == 5

\* the steps by which time advances between events
ResizeAdvances == {100, 150}

ResizeCall ==
  [fn |-> "resize", timeout |-> <<>>, since |-> DebounceWait,
   scaleCalls |-> 0, burstCalls |-> 0, unanswered |-> FALSE, resizes |-> 0]

InitResize ==
  /\ variant \in {"monolith", "modular"}
  /\ file = NoCanvas
  /\ uploading = FALSE
  /\ isImageLoaded \in BOOLEAN
  /\ bgCanvas \in IF isImageLoaded THEN {Decoded(img) : img \in EditFiles} ELSE {NoCanvas}
  /\ notes = <<>>
  /\ windows = <<>>
  /\ call = ResizeCall

\* the resize listener: an event within DebounceWait of the one before
\* continues the burst, a later one begins a new burst
handleResize ==
  /\ call.fn = "resize" /\ call.resizes < MaxResizes
  /\ LET event == [call EXCEPT !.since = 0,
                               !.unanswered = TRUE,
                               !.resizes = call.resizes + 1,
                               !.burstCalls = IF call.since = DebounceWait THEN 0
                                              ELSE call.burstCalls]
     IN call' = IF variant = "monolith"
                THEN event
                ELSE [event EXCEPT !.timeout = <<DebounceWait>>]
  /\ UNCHANGED editor

\* the timer's callback: clearTimeout, then func
later ==
  /\ call.fn = "resize"
  /\ call.timeout # <<>> /\ call.timeout[1] = 0
  /\ call' = IF isImageLoaded
             THEN [call EXCEPT !.timeout = <<>>,
                               !.scaleCalls = call.scaleCalls + 1,
                               !.burstCalls = call.burstCalls + 1,
                               !.unanswered = FALSE]
             ELSE [call EXCEPT !.timeout = <<>>]
  /\ UNCHANGED editor

\* time passes, no further than the moment the timer is due
ResizeElapse ==
  /\ call.fn = "resize"
  /\ IF call.timeout # <<>> THEN call.timeout[1] > 0 ELSE call.since < DebounceWait
  /\ \E d \in ResizeAdvances :
       LET step == IF call.timeout # <<>> THEN Min(d, call.timeout[1]) ELSE d
       IN call' = [call EXCEPT
                     !.since = Min(call.since + step, DebounceWait),
                     !.timeout = IF call.timeout # <<>> THEN <<call.timeout[1] - step>>
                                 ELSE <<>>]
  /\ UNCHANGED editor

NextResize ==
  \/ handleResize
  \/ later
  \/ ResizeElapse

\* time does not stop, and a timer that is due fires
SpecResize ==
  /\ InitResize /\ [][NextResize]_vars
  /\ WF_vars(ResizeElapse) /\ WF_vars(later)

\* the listener calls scaleCanvasView
ScaleCalled == call.fn = "resize" /\ call'.scaleCalls = call.scaleCalls + 1

(***************************************************************************)
(* C29: in every PhotoEditor variant, after a burst of window resize       *)
(* events ends while an image is loaded, scaleCanvasView is eventually     *)
(* called, exactly once for the burst, 250 ms after the last resize event; *)
(* resize events arriving less than 250 ms apart do not each trigger a     *)
(* call.                                                                   *)
(***************************************************************************)
C29_ResizeDebounced ==
  /\ [][ScaleCalled => (call.since = DebounceWait /\ call.burstCalls = 0)]_vars
  /\ (call.fn = "resize" /\ isImageLoaded /\ call.unanswered) ~> ~call.unanswered

====
